---- MODULE Spec2Model ----
(***************************************************************************)
(* A model of the elerp application protocol: the length-prefixed framing  *)
(* of src/src/helper.py, the dispatch engine (ProtocolExecutor) and the    *)
(* envelope codec (ProtocolHandler, ProtocolEncoder, protocolHook) of      *)
(* src/src/protocol.py, and the discovery exchange over UDP: the listener  *)
(* loop and searchServer of src/src/networking.py with udpService of       *)
(* src/elerpServer.py, and one session of the request loop: clientHandler  *)
(* and the request handlers of src/elerpServer.py.                         *)
(***************************************************************************)
EXTENDS Integers, Sequences, FiniteSets, TLC

\* Bounds of the model.
MaxLen == 2        \* longest payload, in bytes
MaxMsgs == 2       \* number of complete messages a peer sends on one stream
MaxKeys == 2       \* number of distinct (type, command) keys registered on one executor
MaxDatagrams == 3  \* number of datagrams sent to the discovery port
MaxRequests == 2   \* number of frames a client sends in one session
MaxSessions == 2   \* number of clients that connect to the server
MaxTraffic == 2    \* number of frames and datagrams sent to the server in all
MaxThreads == 2    \* number of server threads that build a reply at the same time
MaxUsages == 2     \* number of registerUsage requests one session sends

VARIABLES
    \* ---- framing (helper.py): one direction of one TCP stream
    stream,        \* bytes written by the peer and not yet read
    peerClosed,    \* the peer has closed its end
    sentLog,       \* payloads of the frames the peer has written completely
    tail,          \* bytes of a frame the peer wrote only in part before closing
    rpc,           \* where recvMessage stands: "idle", "hdr", "body"
    data,          \* recvAll's bytearray
    numBytes,      \* recvAll's numBytes
    consumed,      \* bytes read from the stream by the recvMessage call in progress
    received,      \* what the recvMessage calls have returned, in order
    \* ---- dispatch (protocol.py, ProtocolExecutor): one executor
    hasHandlers,   \* the executor has the attribute self.handlers
    handlers,      \* self.handlers: (type, command) -> (action, scope)
    defaultHandler,\* self.defaultHandler: "<unset>" (no such attribute), "None" or an action
    message,       \* self.message: None or a ProtocolData
    calls,         \* the actions the last operation invoked, with their argument
    outcome,       \* how the last operation ended
    \* ---- codec (protocol.py, ProtocolHandler): one handler and its peer
    plan,          \* the arguments the caller gives prepMessage
    hdata,         \* self.data of the ProtocolHandler
    msgIsDefault,  \* self.data['message'] is the default dict of prepMessage
    dfltMessage,   \* the default dict of prepMessage's mainMessage
    built,         \* the data serializeMessage was called on
    wire,          \* the text serializeMessage returned
    decoded,       \* what deserializeMessageAsProtocolData returned for it
    \* ---- discovery (networking.py, elerpServer.udpService): one server, one client
    stop,          \* the server's stop flag (threading.Event) is set
    udpInbox,      \* datagrams waiting at the listener's socket, with their sender
    udpCount,      \* datagrams sent to the discovery port so far
    udpPc,         \* the listener thread: "while", "recvfrom", "closed", "crashed"
    udpErr,        \* class of the exception that ended the listener thread, or ""
    udpLast,       \* the datagram the listener received last and what was done for it
    ssPc,          \* searchServer: "idle", "recvfrom", "done"
    ssLogger,      \* searchServer's logger argument is a logger (TRUE) or None (FALSE)
    ssInbox,       \* datagrams waiting at searchServer's socket, with their sender
    ssGot,         \* what searchServer's recvfrom produced: a datagram or an exception
    ssResult,      \* how the searchServer call ended
    \* ---- one session (elerpServer.clientHandler) and the store (database.py)
    sessPc,        \* the session thread: "while", "recvMessage", "closed", "crashed"
    sessErr,       \* class of the exception that ended the session thread, or ""
    ipBound,       \* clientHandler's local variable ip has been assigned
    served,        \* reads of the session so far
    sessLast,      \* what the last pass of the session loop did
    store,         \* the rows of the database
    metaCount,     \* database_metadata['count']
    \* ---- the server process (networking.createTCPThread, elerpServer.tcpService)
    accPc,         \* the accept thread: "while", "accept", "action", "closed", "crashed"
    pending,       \* connections that wait in the queue of the listening socket
    sess,          \* the session threads tcpService has started, by connection
    \* ---- the client's version check (main.py, versionCompare)
    vcClient,      \* the client argument, a string as a sequence of characters
    vcServer,      \* the server argument
    vcResult,      \* what versionCompare returned, in a sequence that is empty before
    \* ---- the server's one ProtocolHandler in the hands of its threads
    heap,          \* the dicts that were self.data at some time, by identity
    cur,           \* the identity of the dict self.data refers to
    thPlan,        \* per thread: the reply its handler prepares
    thPc,          \* per thread: the statement of prepMessage/serializeMessage it is at
    thFinal,       \* per thread: the identity of serializeMessage's local final
    thSent,        \* per thread: the text it sent, in a sequence that is empty before
    \* ---- the records of usage two sessions write (postRegisterUsage, database.py)
    recordsTbl,    \* table records: per row the request that inserted it; record_id is the row number
    classTbl,      \* table class_records: per row the request that inserted it and its record_id
    ruPc,          \* per session: the statement of postRegisterUsage it is at
    ruReq,         \* per session: the number of registerUsage requests it has taken
    ruId,          \* per session: postRegisterUsage's local r_id
    \* ---- the client's start-up (main.py)
    clPc,          \* "searchServer", "connectToServer", "exit", "crashed"
    clAddr         \* the local addr of the start-up, what searchServer returned

framingVars == <<stream, peerClosed, sentLog, tail, rpc, data, numBytes, consumed, received>>
execVars == <<hasHandlers, handlers, defaultHandler, message, calls, outcome>>
codecVars == <<plan, hdata, msgIsDefault, dfltMessage, built, wire, decoded>>

discVars == <<stop, udpInbox, udpCount, udpPc, udpErr, udpLast,
              ssPc, ssLogger, ssInbox, ssGot, ssResult>>

sessVars == <<sessPc, sessErr, ipBound, served, sessLast, store, metaCount>>

srvVars == <<accPc, pending, sess>>

verVars == <<vcClient, vcServer, vcResult>>

\* The variables of the components that stand next to the server's.
raceVars == <<heap, cur, thPlan, thPc, thFinal, thSent>>
usageVars == <<recordsTbl, classTbl, ruPc, ruReq, ruId>>
clientVars == <<clPc, clAddr>>
sideVars == <<usageVars, clientVars>>
auxVars == <<verVars, raceVars, sideVars>>

vars == <<framingVars, execVars, codecVars, discVars, sessVars, srvVars, auxVars>>

\* What the operations of one component leave alone.
nonFramingVars == <<execVars, codecVars, discVars, sessVars, srvVars, auxVars>>
nonExecVars == <<framingVars, codecVars, discVars, sessVars, srvVars, auxVars>>
nonCodecVars == <<framingVars, execVars, discVars, sessVars, srvVars, auxVars>>
nonDiscVars == <<framingVars, execVars, codecVars, sessVars, srvVars, auxVars>>
nonSessVars == <<framingVars, execVars, codecVars, discVars, srvVars, auxVars>>

----------------------------------------------------------------------------
(***************************************************************************)
(* Python values.  Every value is a record of one shape, so that any two   *)
(* values can be compared: t is the type, and the field that type uses     *)
(* holds the content.                                                      *)
(***************************************************************************)

EmptyMap == [k \in {} |-> 0]

Val(t, s, n, b, items, map) ==
    [t |-> t, s |-> s, n |-> n, b |-> b, items |-> items, map |-> map]

PyNone == Val("NoneType", "", 0, <<>>, <<>>, EmptyMap)
PyBool(v) == Val("bool", "", IF v THEN 1 ELSE 0, <<>>, <<>>, EmptyMap)
PyInt(n) == Val("int", "", n, <<>>, <<>>, EmptyMap)
PyStr(s) == Val("str", s, 0, <<>>, <<>>, EmptyMap)
PyBytes(b) == Val("bytes", "", 0, b, <<>>, EmptyMap)
PyList(items) == Val("list", "", 0, <<>>, items, EmptyMap)
PyDict(map) == Val("dict", "", 0, <<>>, <<>>, map)
\* A member of one of the Enum classes REQUEST, RESPONSE, STATUS, by its value.
PyEnum(cls, value) == Val(cls, value, 0, <<>>, <<>>, EmptyMap)

RequestValues == {"get", "post", "put", "delete"}
ResponseValues == {"ok", "error"}
StatusValues ==
    {"success", "invalid_request", "empty_parameter", "invalid_parameter", "upload_failed"}

REQUEST_GET == PyEnum("REQUEST", "get")
REQUEST_POST == PyEnum("REQUEST", "post")
REQUEST_PUT == PyEnum("REQUEST", "put")
REQUEST_DELETE == PyEnum("REQUEST", "delete")
RESPONSE_OK == PyEnum("RESPONSE", "ok")
RESPONSE_ERROR == PyEnum("RESPONSE", "error")
STATUS_SUCCESS == PyEnum("STATUS", "success")
STATUS_INVALID_REQUEST == PyEnum("STATUS", "invalid_request")

\* The closed set of kinds of an envelope.
Kinds ==
    {PyEnum("REQUEST", v) : v \in RequestValues} \cup {PyEnum("RESPONSE", v) : v \in ResponseValues}

\* ProtocolData: self.data = {'type': ..., 'command': ..., 'message': ...}
ProtocolData(type, command, msg) ==
    Val("ProtocolData", "", 0, <<>>, <<>>,
        ("type" :> type @@ "command" :> command @@ "message" :> msg))

getType(pd) == pd.map["type"]
getCommand(pd) == pd.map["command"]
getMessage(pd) == pd.map["message"]

----------------------------------------------------------------------------
(***************************************************************************)
(* Framing: sendMessage, recvAll, recvMessage (src/src/helper.py)          *)
(***************************************************************************)

Byte == {0, 1}

RECURSIVE SeqsUpTo(_, _)
SeqsUpTo(S, n) ==
    IF n = 0 THEN {<<>>}
    ELSE LET shorter == SeqsUpTo(S, n - 1)
         IN shorter \cup {Append(s, x) : s \in {q \in shorter : Len(q) = n - 1}, x \in S}

Payloads == SeqsUpTo(Byte, MaxLen)

Min(a, b) == IF a < b THEN a ELSE b

\* struct.pack('>I', n): four bytes, most significant first.
Pack(n) ==
    << (n \div 16777216) % 256, (n \div 65536) % 256, (n \div 256) % 256, n % 256 >>

\* struct.unpack('>I', raw)[0]
Unpack(raw) ==
    raw[1] * 16777216 + raw[2] * 65536 + raw[3] * 256 + raw[4]

\* A frame whose length prefix counts one byte too many.
FrameOffByOne(payload) == Pack(Len(payload) + 1) \o payload

\* sendMessage: message = struct.pack('>I', len(payload)) + payload
Frame(payload) == Pack(Len(payload)) \o payload

\* A recv that ignores how many bytes are still wanted.
RecvSizesGreedy(wanted, avail) == 1 .. avail

\* sock.recv(numBytes - len(data)): any non-empty prefix of what is in flight,
\* at most the number of bytes asked for.
RecvSizes(wanted, avail) == 1 .. Min(wanted, avail)

\* What recvMessage returns: None, or a bytearray.
RetNone(n) == [ret |-> "None", bytes |-> <<>>, consumed |-> n]
RetBytes(b, n) == [ret |-> "bytes", bytes |-> b, consumed |-> n]

FramingInit ==
    /\ stream = <<>>
    /\ peerClosed = FALSE
    /\ sentLog = <<>>
    /\ tail = <<>>
    /\ rpc = "idle"
    /\ data = <<>>
    /\ numBytes = 0
    /\ consumed = 0
    /\ received = <<>>

\* The peer calls sendMessage(sock, message); sendall writes the whole frame.
SendMessage(payload) ==
    /\ ~peerClosed
    /\ Len(sentLog) < MaxMsgs
    /\ stream' = stream \o Frame(payload)
    /\ sentLog' = Append(sentLog, payload)
    /\ UNCHANGED <<peerClosed, tail, rpc, data, numBytes, consumed, received>>
    /\ UNCHANGED nonFramingVars

\* The peer closes the connection between two messages.
PeerClose ==
    /\ ~peerClosed
    /\ peerClosed' = TRUE
    /\ UNCHANGED <<stream, sentLog, tail, rpc, data, numBytes, consumed, received>>
    /\ UNCHANGED nonFramingVars

\* The peer's connection ends while a frame is being written: only the first
\* k bytes of the frame reach the stream.
PeerAbort(payload, k) ==
    /\ ~peerClosed
    /\ k \in 1 .. (Len(Frame(payload)) - 1)
    /\ stream' = stream \o SubSeq(Frame(payload), 1, k)
    /\ tail' = SubSeq(Frame(payload), 1, k)
    /\ peerClosed' = TRUE
    /\ UNCHANGED <<sentLog, rpc, data, numBytes, consumed, received>>
    /\ UNCHANGED nonFramingVars

\* recvMessage is called: raw_message = recvAll(sock, 4) starts.
RecvMessageCall ==
    /\ rpc = "idle"
    /\ Len(received) < MaxMsgs + 1
    /\ rpc' = "hdr"
    /\ data' = <<>>
    /\ numBytes' = 4
    /\ consumed' = 0
    /\ UNCHANGED <<stream, peerClosed, sentLog, tail, received>>
    /\ UNCHANGED nonFramingVars

\* One iteration of recvAll's loop in which recv returns k bytes.
RecvAllIter(k) ==
    /\ rpc \in {"hdr", "body"}
    /\ Len(data) < numBytes
    /\ stream # <<>>
    /\ k \in RecvSizes(numBytes - Len(data), Len(stream))
    /\ data' = data \o SubSeq(stream, 1, k)
    /\ stream' = SubSeq(stream, k + 1, Len(stream))
    /\ consumed' = consumed + k
    /\ UNCHANGED <<peerClosed, sentLog, tail, rpc, numBytes, received>>
    /\ UNCHANGED nonFramingVars

\* One iteration of recvAll's loop in which recv returns b'' (the peer has
\* closed and nothing is left): recvAll returns None, and so does recvMessage,
\* from the prefix read ("if not raw_message: return None") and from the
\* payload read ("return recvAll(sock, messageLength)") alike.
RecvAllEof ==
    /\ rpc \in {"hdr", "body"}
    /\ Len(data) < numBytes
    /\ stream = <<>>
    /\ peerClosed
    /\ received' = Append(received, RetNone(consumed))
    /\ rpc' = "idle"
    /\ UNCHANGED <<stream, peerClosed, sentLog, tail, data, numBytes, consumed>>
    /\ UNCHANGED nonFramingVars

\* recvAll's loop ends with numBytes bytes: after the prefix, recvMessage
\* unpacks the length and starts recvAll(sock, messageLength); after the
\* payload it returns the bytearray.
RecvAllReturn ==
    /\ rpc \in {"hdr", "body"}
    /\ ~(Len(data) < numBytes)
    /\ IF rpc = "hdr"
       THEN /\ rpc' = "body"
            /\ numBytes' = Unpack(data)
            /\ data' = <<>>
            /\ UNCHANGED received
       ELSE /\ rpc' = "idle"
            /\ received' = Append(received, RetBytes(data, consumed))
            /\ UNCHANGED <<data, numBytes>>
    /\ UNCHANGED <<stream, peerClosed, sentLog, tail, consumed>>
    /\ UNCHANGED nonFramingVars

FramingNext ==
    \/ \E m \in Payloads : SendMessage(m)
    \/ PeerClose
    \/ \E m \in Payloads : \E k \in 1 .. (MaxLen + 3) : PeerAbort(m, k)
    \/ RecvMessageCall
    \/ \E k \in 1 .. (MaxLen + 4) : RecvAllIter(k)
    \/ RecvAllEof
    \/ RecvAllReturn

----------------------------------------------------------------------------
(***************************************************************************)
(* Dispatch: ProtocolExecutor (src/src/protocol.py)                        *)
(***************************************************************************)

Actions == {"h1", "h2"}
Scopes == {"command", "message", "whole", "response"}
\* The (requestType, requestCommand) pairs handlers are registered under.
RegKeys ==
    { <<REQUEST_GET, PyStr("a")>>, <<REQUEST_GET, PyStr("b")>>, <<REQUEST_POST, PyStr("b")>> }

\* The envelopes handed to the executor.
ExecBody == PyDict("k" :> PyInt(1))
ExecMessages ==
    {ProtocolData(k, c, ExecBody) :
        k \in {REQUEST_GET, REQUEST_POST, REQUEST_DELETE}, c \in {PyStr("a"), PyStr("b")}}

NoHandlers == [k \in {} |-> [action |-> "", scope |-> ""]]

\* How the last operation ended: returned, or raised ValueError or
\* AttributeError; op names it when it was addMessageHandler or
\* executeHandlers, tuple is the request_tuple a ValueError names, note tells
\* whether a registration was new, and which attribute an AttributeError
\* missed; for addMessageHandler, tuple and entry are the arguments given.
Outcome(op, result, tuple, note) ==
    [op |-> op, result |-> result, tuple |-> tuple, note |-> note,
     entry |-> [action |-> "", scope |-> ""]]

\* One invocation of an action: its argument, and whether it was called as a
\* registered handler or as the default handler.
Call(action, arg, via) == [action |-> action, arg |-> arg, via |-> via]

\* A lookup key that ignores the kind of the message.
getMessageTupleByCommand(msg) == <<REQUEST_GET, getCommand(msg)>>

\* getMessageTuple: (self.message.getType(), self.message.getCommand())
getMessageTuple(msg) == <<getType(msg), getCommand(msg)>>

\* A registration that keeps the entry a key already has.
UpsertKeepFirst(hs, key, entry) ==
    [k \in DOMAIN hs \cup {key} |-> IF k \in DOMAIN hs THEN hs[k] ELSE entry]

\* self.handlers[(requestType, requestCommand)] = (action, scope)
Upsert(hs, key, entry) ==
    [k \in DOMAIN hs \cup {key} |-> IF k = key THEN entry ELSE hs[k]]

\* A dispatch that hands every handler the body.
ScopeViewBodyOnly(scope, msg) == getMessage(msg)

\* The argument executeHandlers passes for a scope: the if/elif chain on
\* ExecutorScope.
ScopeView(scope, msg) ==
    IF scope = "message" THEN getMessage(msg)
    ELSE IF scope = "whole" THEN msg
    ELSE IF scope = "command" THEN getCommand(msg)
    ELSE getType(msg)

\* ProtocolExecutor(message): only self.message is set.
ExecFresh ==
    /\ hasHandlers = FALSE
    /\ handlers = NoHandlers
    /\ defaultHandler = "<unset>"
    /\ message \in {PyNone} \cup ExecMessages
    /\ calls = <<>>
    /\ outcome = Outcome("", "returned", <<>>, "")

ExecIdle ==
    /\ hasHandlers = FALSE
    /\ handlers = NoHandlers
    /\ defaultHandler = "<unset>"
    /\ message = PyNone
    /\ calls = <<>>
    /\ outcome = Outcome("", "returned", <<>>, "")

setMessage(msg) ==
    /\ message' = msg
    /\ calls' = <<>>
    /\ outcome' = Outcome("", "returned", <<>>, "")
    /\ UNCHANGED <<hasHandlers, handlers, defaultHandler>>
    /\ UNCHANGED nonExecVars

addMessageHandler(action, requestType, requestCommand, scope) ==
    LET key == <<requestType, requestCommand>>
        entry == [action |-> action, scope |-> scope]
        old == IF hasHandlers THEN handlers ELSE NoHandlers
    IN /\ Cardinality(DOMAIN old \cup {key}) <= MaxKeys
       /\ hasHandlers' = TRUE
       /\ handlers' = Upsert(old, key, entry)
       /\ calls' = <<>>
       /\ outcome' = [Outcome("addMessageHandler", "returned", key,
                                IF key \notin DOMAIN old THEN "new"
                                ELSE IF old[key] = entry THEN "same" ELSE "replaced")
                           EXCEPT !.entry = entry]
       /\ UNCHANGED <<defaultHandler, message>>
       /\ UNCHANGED nonExecVars

setDefaultHandler(action) ==
    /\ defaultHandler' = action
    /\ calls' = <<>>
    /\ outcome' = Outcome("", "returned", <<>>, "")
    /\ UNCHANGED <<hasHandlers, handlers, message>>
    /\ UNCHANGED nonExecVars

\* executeHandlers.  An attribute that was never assigned (self.handlers
\* before the first addMessageHandler, self.defaultHandler before the first
\* setDefaultHandler) and a method call on a None message raise
\* AttributeError.
executeHandlers ==
    /\ IF message.t # "ProtocolData"
       THEN /\ calls' = <<>>
            /\ outcome' = Outcome("executeHandlers", "AttributeError", <<>>, "message")
       ELSE LET request_tuple == getMessageTuple(message)
            IN IF ~hasHandlers
               THEN /\ calls' = <<>>
                    /\ outcome' = Outcome("executeHandlers", "AttributeError", <<>>, "handlers")
               ELSE IF request_tuple \in DOMAIN handlers
               THEN /\ calls' = << Call(handlers[request_tuple].action,
                                        ScopeView(handlers[request_tuple].scope, message),
                                        "handler") >>
                    /\ outcome' = Outcome("executeHandlers", "returned", <<>>, "")
               ELSE IF defaultHandler = "<unset>"
               THEN /\ calls' = <<>>
                    /\ outcome' = Outcome("executeHandlers", "AttributeError", <<>>,
                                          "defaultHandler")
               ELSE IF defaultHandler = "None"
               THEN /\ calls' = <<>>
                    /\ outcome' = Outcome("executeHandlers", "ValueError", request_tuple, "")
               ELSE /\ calls' = << Call(defaultHandler, message, "default") >>
                    /\ outcome' = Outcome("executeHandlers", "returned", <<>>, "")
    /\ UNCHANGED <<hasHandlers, handlers, defaultHandler, message>>
    /\ UNCHANGED nonExecVars

ExecNext ==
    \/ \E m \in ExecMessages : setMessage(m)
    \/ \E a \in Actions, key \in RegKeys, s \in Scopes :
          addMessageHandler(a, key[1], key[2], s)
    \/ \E a \in {"dflt", "None"} : setDefaultHandler(a)
    \/ executeHandlers

----------------------------------------------------------------------------
(***************************************************************************)
(* Envelope codec: ProtocolEncoder, protocolHook, ProtocolHandler          *)
(* (src/src/protocol.py).  Serialized text is modelled by the JSON         *)
(* document it denotes: a value made of None, bool, int, str, list and     *)
(* dict only.                                                              *)
(***************************************************************************)

\* No value: nothing serialized or decoded yet.
Nothing == Val("<nothing>", "", 0, <<>>, <<>>, EmptyMap)
\* An exception that left a call: s is its class.
Raised(cls) == Val("<raised>", cls, 0, <<>>, <<>>, EmptyMap)
IsRaised(v) == v.t = "<raised>"

EnumClasses == {"REQUEST", "RESPONSE", "STATUS"}
EnumValues(cls) ==
    IF cls = "REQUEST" THEN RequestValues
    ELSE IF cls = "RESPONSE" THEN ResponseValues
    ELSE StatusValues

\* The wrapper key of an Enum class: '__REQUEST__', '__RESPONSE__', '__STATUS__'.
WrapperKey(cls) == "__" \o cls \o "__"

\* base64.b64encode(obj).decode(): the standard alphabet, '=' padding.
B64Chars ==
    << "A", "B", "C", "D", "E", "F", "G", "H", "I", "J", "K", "L", "M",
       "N", "O", "P", "Q", "R", "S", "T", "U", "V", "W", "X", "Y", "Z",
       "a", "b", "c", "d", "e", "f", "g", "h", "i", "j", "k", "l", "m",
       "n", "o", "p", "q", "r", "s", "t", "u", "v", "w", "x", "y", "z",
       "0", "1", "2", "3", "4", "5", "6", "7", "8", "9", "+", "/" >>

RECURSIVE b64encode(_)
b64encode(b) ==
    IF Len(b) = 0 THEN ""
    ELSE IF Len(b) = 1 THEN
        B64Chars[(b[1] \div 4) + 1] \o B64Chars[(b[1] % 4) * 16 + 1] \o "=="
    ELSE IF Len(b) = 2 THEN
        B64Chars[(b[1] \div 4) + 1]
            \o B64Chars[(b[1] % 4) * 16 + (b[2] \div 16) + 1]
            \o B64Chars[(b[2] % 16) * 4 + 1] \o "="
    ELSE
        B64Chars[(b[1] \div 4) + 1]
            \o B64Chars[(b[1] % 4) * 16 + (b[2] \div 16) + 1]
            \o B64Chars[(b[2] % 16) * 4 + (b[3] \div 64) + 1]
            \o B64Chars[(b[3] % 64) + 1]
            \o b64encode(SubSeq(b, 4, Len(b)))

\* json.dumps(final, cls=ProtocolEncoder): ProtocolEncoder.default turns a
\* member of REQUEST, RESPONSE or STATUS into a one-entry mapping and bytes
\* into base64 text; lists and dicts are encoded element by element.
RECURSIVE Encode(_)
Encode(obj) ==
    IF obj.t \in EnumClasses THEN PyDict(WrapperKey(obj.t) :> PyStr(obj.s))
    ELSE IF obj.t = "bytes" THEN PyStr(b64encode(obj.b))
    ELSE IF obj.t = "list"
        THEN PyList([i \in 1 .. Len(obj.items) |-> Encode(obj.items[i])])
    ELSE IF obj.t = "dict"
        THEN PyDict([k \in DOMAIN obj.map |-> Encode(obj.map[k])])
    ELSE obj

\* Text that is not well-formed JSON.
Malformed == Val("<malformed>", "", 0, <<>>, <<>>, EmptyMap)

\* A lookup that would hand back a value that names no member.
EnumLookupLenient(cls, x) ==
    IF x.t = "str" /\ x.s \in EnumValues(cls) THEN PyEnum(cls, x.s) ELSE x

\* REQUEST(x), RESPONSE(x), STATUS(x): the member whose value is x, or ValueError.
EnumLookup(cls, x) ==
    IF x.t = "str" /\ x.s \in EnumValues(cls) THEN PyEnum(cls, x.s)
    ELSE Raised("ValueError")

\* A hook that would leave every mapping as it is.
protocolHookOff(d) == d

\* protocolHook(data), called by json.loads on every mapping it has parsed.
protocolHook(d) ==
    IF "__REQUEST__" \in DOMAIN d.map THEN EnumLookup("REQUEST", d.map["__REQUEST__"])
    ELSE IF "__RESPONSE__" \in DOMAIN d.map THEN EnumLookup("RESPONSE", d.map["__RESPONSE__"])
    ELSE IF "__STATUS__" \in DOMAIN d.map THEN EnumLookup("STATUS", d.map["__STATUS__"])
    ELSE d

\* json.loads(text, object_hook=protocolHook) on the document doc the text
\* denotes: the hook is applied to the innermost mappings first, and an
\* exception it raises ends the whole parse; text that is not JSON raises
\* JSONDecodeError.
RECURSIVE Loads(_)
Loads(doc) ==
    IF doc = Malformed THEN Raised("JSONDecodeError")
    ELSE IF doc.t = "list" THEN
        LET parsed == [i \in 1 .. Len(doc.items) |-> Loads(doc.items[i])]
        IN IF \E i \in 1 .. Len(parsed) : IsRaised(parsed[i])
           THEN Raised("ValueError") ELSE PyList(parsed)
    ELSE IF doc.t = "dict" THEN
        LET parsed == [k \in DOMAIN doc.map |-> Loads(doc.map[k])]
        IN IF \E k \in DOMAIN parsed : IsRaised(parsed[k])
           THEN Raised("ValueError") ELSE protocolHook(PyDict(parsed))
    ELSE doc

\* progRes, the resources loaded from res/data.json: lists of forms and subjects.
ProgRes ==
    PyDict("forms" :> PyList(<< PyDict("name" :> PyStr("Form 1") @@ "cname" :> PyStr("F1")) >>)
           @@ "subjects" :> PyList(<< PyDict("name" :> PyStr("Math") @@ "cname" :> PyStr("M")) >>))

\* json.dumps(progRes)
ProgResText ==
    "{\"forms\": [{\"name\": \"Form 1\", \"cname\": \"F1\"}], "
        \o "\"subjects\": [{\"name\": \"Math\", \"cname\": \"M\"}]}"

\* json.dumps of the rows a query returned: the text of a list of n rows,
\* told apart only as none or some.
DumpsRows(n) == IF n = 0 THEN "[]" ELSE "[[\"row\"]]"

\* The strings of the model that are JSON text, with the document each denotes;
\* every other string of the model makes json.loads raise JSONDecodeError.
JSONTexts ==
    "123" :> PyInt(123)
    @@ "1234" :> PyInt(1234)
    @@ "true" :> PyBool(TRUE)
    @@ "null" :> PyNone
    @@ "{}" :> PyDict(EmptyMap)
    @@ "\"q\"" :> PyStr("q")
    @@ "{\"__STATUS__\": \"success\"}" :> PyDict("__STATUS__" :> PyStr("success"))
    @@ ProgResText :> ProgRes
    @@ "[]" :> PyList(<<>>)
    @@ "[[\"row\"]]" :> PyList(<< PyList(<< PyStr("row") >>) >>)

\* json.loads(s, object_hook=protocolHook) on the content of a str value.
LoadsText(s) ==
    IF s \in DOMAIN JSONTexts THEN Loads(JSONTexts[s]) ELSE Raised("JSONDecodeError")

\* recursiveJSONParser(data).  For a dict: a str value is replaced by its
\* parse when json.loads succeeds and kept when it raises; a dict value is
\* parsed recursively; the str elements of a list value are handed to
\* recursiveJSONParser itself, which for a str indexes it by its characters,
\* swallows the TypeError of each and returns the str unchanged, so a list
\* stays as it is.
RECURSIVE recursiveJSONParser(_)
recursiveJSONParser(d) ==
    IF d.t = "dict"
    THEN PyDict([key \in DOMAIN d.map |->
            LET v == d.map[key]
            IN IF v.t = "str"
               THEN (IF IsRaised(LoadsText(v.s)) THEN v ELSE LoadsText(v.s))
               ELSE IF v.t = "list"
               THEN PyList([i \in 1 .. Len(v.items) |->
                        IF v.items[i].t = "str"
                        THEN recursiveJSONParser(v.items[i])
                        ELSE v.items[i]])
               ELSE IF v.t = "dict" THEN recursiveJSONParser(v)
               ELSE v])
    ELSE d

\* serializeMessage's text for self.data = final.
Serialize(final) == Encode(final)

\* deserializeMessageAsProtocolData(message) on the text of document doc:
\* json.loads with the hook, recursiveJSONParser, then raw['type'],
\* raw['command'], raw['message'].
Deserialize(doc) ==
    LET loaded == Loads(doc)
    IN IF IsRaised(loaded) THEN loaded
       ELSE IF loaded.t # "dict" THEN Raised("TypeError")
       ELSE LET raw == recursiveJSONParser(loaded)
            IN IF {"type", "command", "message"} \subseteq DOMAIN raw.map
               THEN ProtocolData(raw.map["type"], raw.map["command"], raw.map["message"])
               ELSE Raised("KeyError")

\* The values envelopes are built from.
Texts == {"hello", "123", "true", "null", "{}", "get", ""}
SampleBytes == { <<104, 105>>, <<215, 109, 248>> }
Scalars ==
    {PyStr(s) : s \in Texts} \cup {PyInt(7)} \cup {PyBytes(b) : b \in SampleBytes}
        \cup {STATUS_SUCCESS}
Bodies ==
    Scalars
        \cup {PyList(<<x>>) : x \in Scalars}
        \cup {PyDict("k" :> x) : x \in Scalars}
        \cup {PyDict("k" :> PyDict("j" :> x)) : x \in Scalars}
        \cup {PyDict("k" :> PyList(<<x>>)) : x \in Scalars}
        \cup {PyList(<<>>)}
Commands == {PyNone, PyStr("a"), PyStr("123")}
AttrKeys == {"k", "n"}
AttrValues == {PyStr("hello"), PyStr("true"), PyBytes(<<104, 105>>)}

\* The arguments of a prepMessage call; defaulted tells that mainMessage is
\* not given.
Plans ==
    {[responseObj |-> k, mainCommand |-> c, mainMessage |-> b, defaulted |-> FALSE] :
        k \in Kinds, c \in Commands, b \in Bodies}
    \cup {[responseObj |-> k, mainCommand |-> c, mainMessage |-> PyNone, defaulted |-> TRUE] :
        k \in Kinds, c \in Commands}

\* ProtocolHandler(): self.data = {}; the default of prepMessage's
\* mainMessage is one dict, created when the function is defined.
CodecFresh ==
    /\ hdata = PyDict(EmptyMap)
    /\ msgIsDefault = FALSE
    /\ dfltMessage = PyDict(EmptyMap)
    /\ built = Nothing
    /\ wire = Nothing
    /\ decoded = Nothing

CodecInit == CodecFresh /\ plan \in Plans

CodecIdle ==
    /\ CodecFresh
    /\ plan = [responseObj |-> REQUEST_GET, mainCommand |-> PyNone,
               mainMessage |-> PyNone, defaulted |-> TRUE]

\* prepMessage(responseObj, mainCommand, mainMessage), called as every caller
\* in the repository does, to start a message on a handler whose data is
\* empty; without mainMessage the message is the default dict itself.
prepMessage(responseObj, mainCommand, mainMessage, defaulted) ==
    /\ DOMAIN hdata.map = {}
    /\ hdata' = PyDict("type" :> responseObj @@ "command" :> mainCommand
                       @@ "message" :> (IF defaulted THEN dfltMessage ELSE mainMessage))
    /\ msgIsDefault' = defaulted
    /\ built' = Nothing
    /\ wire' = Nothing
    /\ decoded' = Nothing
    /\ UNCHANGED <<plan, dfltMessage>>
    /\ UNCHANGED nonCodecVars

\* addAttribute(key, value): self.data['message'][key] = value, on a message
\* that is a dict; when the message is the default dict, that dict changes.
addAttribute(key, value) ==
    /\ "message" \in DOMAIN hdata.map
    /\ hdata.map["message"].t = "dict"
    /\ LET msg == hdata.map["message"]
           new == PyDict([k \in DOMAIN msg.map \cup {key} |->
                            IF k = key THEN value ELSE msg.map[k]])
       IN /\ hdata' = PyDict([hdata.map EXCEPT !["message"] = new])
          /\ dfltMessage' = IF msgIsDefault THEN new ELSE dfltMessage
    /\ UNCHANGED <<plan, msgIsDefault, built, wire, decoded>>
    /\ UNCHANGED nonCodecVars

\* serializeMessage: final = self.data; self.data = {}; return json.dumps(final, ...)
serializeMessage ==
    /\ DOMAIN hdata.map # {}
    /\ built' = hdata
    /\ wire' = Serialize(hdata)
    /\ hdata' = PyDict(EmptyMap)
    /\ msgIsDefault' = FALSE
    /\ decoded' = Nothing
    /\ UNCHANGED <<plan, dfltMessage>>
    /\ UNCHANGED nonCodecVars

\* The receiver calls deserializeMessageAsProtocolData on the text.
deserializeMessageAsProtocolData ==
    /\ wire # Nothing
    /\ decoded = Nothing
    /\ decoded' = Deserialize(wire)
    /\ UNCHANGED <<plan, hdata, msgIsDefault, dfltMessage, built, wire>>
    /\ UNCHANGED nonCodecVars

\* What a peer can put in the type field of the text it sends: the six
\* kinds as serializeMessage writes them, and a plain string, a STATUS tag,
\* null, a number, an untagged mapping and a tag with an unknown value.
TypeFields ==
    { Encode(k) : k \in Kinds }
    \cup { PyStr("get"), Encode(STATUS_SUCCESS), PyNone, PyInt(7),
           PyDict("a" :> PyInt(1)), PyDict("__REQUEST__" :> PyStr("probe")) }

\* Bodies that carry tag members, alone and nested in mappings and lists,
\* next to strings whose text is the value of a tag.
TagBodies ==
    { PyStr("get"), PyStr("ok"), PyStr("success"), STATUS_SUCCESS,
      PyDict("k" :> STATUS_SUCCESS @@ "s" :> PyStr("get")),
      PyList(<< RESPONSE_OK, PyStr("ok") >>),
      PyDict("a" :> PyDict("k" :> REQUEST_GET @@ "s" :> PyStr("success"))),
      PyDict("l" :> PyList(<< REQUEST_POST, PyDict("k" :> RESPONSE_ERROR) >>)) }

\* The envelopes a sender builds with them.
TagEnvelopes ==
    { PyDict("type" :> k @@ "command" :> PyStr("c") @@ "message" :> b) :
        k \in Kinds, b \in TagBodies }

\* An envelope text with the given command and body.
WireDoc(c, m) == PyDict("type" :> Encode(REQUEST_GET) @@ "command" :> c @@ "message" :> m)

\* Texts whose strings are themselves JSON text, or are not: as the body, as
\* the command, as values of mappings at two depths and as elements of lists.
StringDocs ==
    { WireDoc(PyStr("c"), PyStr("123")),
      WireDoc(PyStr("123"), PyStr("zz")),
      WireDoc(PyStr("c"), PyDict("a" :> PyStr("123") @@ "b" :> PyStr("zz"))),
      WireDoc(PyStr("c"), PyDict("a" :> PyDict("b" :> PyStr("true") @@ "c" :> PyStr("zz")))),
      WireDoc(PyStr("c"), PyList(<< PyStr("123") >>)),
      WireDoc(PyStr("c"), PyList(<< PyStr("zz"), PyStr("null") >>)),
      WireDoc(PyStr("c"), PyDict("a" :> PyList(<< PyStr("true") >>) @@ "b" :> PyStr("null"))) }

\* Texts in which a tag wrapper carries a value that is no member of its
\* class: as the kind, in the body, and nested in mappings and lists.
BadTagDocs ==
    { WireDoc(PyStr("c"), PyDict("__STATUS__" :> PyStr("zzz"))),
      WireDoc(PyStr("c"), PyDict("a" :> PyDict("__RESPONSE__" :> PyInt(7)))),
      WireDoc(PyStr("c"), PyList(<< PyDict("__REQUEST__" :> PyStr("ok")) >>)),
      WireDoc(PyStr("c"), PyDict("a" :> PyList(<< PyDict("__STATUS__" :> PyNone) >>))),
      WireDoc(PyDict("__REQUEST__" :> PyStr("GET")), PyNone) }

\* The texts a peer can send: documents with the three fields, documents
\* that lack one, a document that is no mapping, and text that is not JSON.
WireDocs ==
    { PyDict("type" :> t @@ "command" :> c @@ "message" :> m) :
        t \in TypeFields, c \in {PyNone, PyStr("c")},
        m \in {PyDict(EmptyMap), PyStr("m"), PyNone} }
    \cup { PyDict("type" :> Encode(REQUEST_GET) @@ "command" :> PyStr("c")),
           PyDict("command" :> PyStr("c") @@ "message" :> PyNone),
           PyList(<<>>),
           Malformed }
    \cup { Serialize(env) : env \in TagEnvelopes }
    \cup StringDocs
    \cup BadTagDocs

\* A text has arrived from the peer and waits to be decoded.
DecodeInit ==
    /\ hdata = PyDict(EmptyMap)
    /\ msgIsDefault = FALSE
    /\ dfltMessage = PyDict(EmptyMap)
    /\ built = Nothing
    /\ wire \in WireDocs
    /\ decoded = Nothing
    /\ plan = [responseObj |-> REQUEST_GET, mainCommand |-> PyNone,
               mainMessage |-> PyNone, defaulted |-> TRUE]

DecodeNext == deserializeMessageAsProtocolData

CodecNext ==
    \/ prepMessage(plan.responseObj, plan.mainCommand, plan.mainMessage, plan.defaulted)
    \/ \E key \in AttrKeys, v \in AttrValues : addAttribute(key, v)
    \/ serializeMessage
    \/ deserializeMessageAsProtocolData

----------------------------------------------------------------------------
(***************************************************************************)
(* Discovery over UDP: createUDPThread.actionWrapper and searchServer      *)
(* (src/src/networking.py), udpService (src/elerpServer.py)                *)
(***************************************************************************)

\* LOCAL_IP, the address of the server, which is also the body of its reply.
LOCAL_IP == "192.168.1.10"
\* The identifier the shipped client and udpService agree on.
ClientIdentifier == "elerp_client"
\* Who sends datagrams: the client that runs searchServer, another host that
\* probes the discovery port, the server, and another host that answers probes.
ClientAddr == "client"
OtherAddr == "other"
ServerAddr == LOCAL_IP
RogueAddr == "rogue"

Datagram(doc, addr) == [data |-> doc, addr |-> addr]
NoDatagram == Datagram(Nothing, "")
\* recvfrom raised socket.timeout, or another socket.error, instead of
\* returning a datagram.
TimedOut == Datagram(Nothing, "<socket.timeout>")
SocketError == Datagram(Nothing, "<socket.error>")

\* handler.prepMessage(REQUEST.POST, mainCommand=identifier).serializeMessage()
ProbeText(identifier) ==
    Serialize(PyDict("type" :> REQUEST_POST @@ "command" :> PyStr(identifier)
                     @@ "message" :> PyDict(EmptyMap)))

\* The datagrams other hosts send to the discovery port: a matching probe,
\* probes of another identifier or kind, one whose command is a mapping,
\* text that lacks a field, text that is not a mapping, text with an unknown
\* tag and text that is not JSON.
OtherProbes ==
    { ProbeText(ClientIdentifier),
      ProbeText("other_client"),
      Serialize(PyDict("type" :> REQUEST_GET @@ "command" :> PyStr(ClientIdentifier)
                       @@ "message" :> PyDict(EmptyMap))),
      Serialize(PyDict("type" :> REQUEST_POST @@ "command" :> PyStr("{}")
                       @@ "message" :> PyDict(EmptyMap))),
      PyDict("type" :> PyDict("__REQUEST__" :> PyStr("post"))),
      PyList(<<>>),
      PyDict("type" :> PyDict("__REQUEST__" :> PyStr("probe"))
             @@ "command" :> PyStr(ClientIdentifier) @@ "message" :> PyDict(EmptyMap)),
      Malformed }

\* handler.prepMessage(RESPONSE.OK, mainMessage=LOCAL_IP).serializeMessage()
OkReplyText ==
    Serialize(PyDict("type" :> RESPONSE_OK @@ "command" :> PyNone
                     @@ "message" :> PyStr(LOCAL_IP)))

\* handler.prepMessage(RESPONSE.ERROR, mainMessage=STATUS.INVALID_REQUEST).serializeMessage()
ErrorReplyText ==
    Serialize(PyDict("type" :> RESPONSE_ERROR @@ "command" :> PyNone
                     @@ "message" :> STATUS_INVALID_REQUEST))

\* The datagrams another host sends to the socket of searchServer.
RogueReplies ==
    { ErrorReplyText,
      Serialize(PyDict("type" :> RESPONSE_OK @@ "command" :> PyNone
                       @@ "message" :> PyStr("10.0.0.9"))),
      Serialize(PyDict("type" :> REQUEST_GET @@ "command" :> PyNone
                       @@ "message" :> PyDict(EmptyMap))),
      Serialize(PyDict("type" :> PyNone @@ "command" :> PyNone
                       @@ "message" :> PyDict(EmptyMap))),
      PyDict("type" :> PyDict("__RESPONSE__" :> PyStr("ok"))),
      PyDict("type" :> PyDict("__RESPONSE__" :> PyStr("fine"))
             @@ "command" :> PyNone @@ "message" :> PyDict(EmptyMap)),
      Malformed }

\* What executeHandlers does on an executor whose attributes are as given:
\* the result ("returned" or the class of the exception) and the calls made.
\* A command that is a mapping or a list makes the lookup key unhashable.
Dispatched(result, called) == [result |-> result, calls |-> called]

executeHandlersOn(hasH, hs, dflt, msg) ==
    LET request_tuple == getMessageTuple(msg)
    IN IF ~hasH THEN Dispatched("AttributeError", <<>>)
       ELSE IF getCommand(msg).t \in {"dict", "list"} \/ getType(msg).t \in {"dict", "list"}
       THEN Dispatched("TypeError", <<>>)
       ELSE IF request_tuple \in DOMAIN hs
       THEN Dispatched("returned",
                << Call(hs[request_tuple].action,
                        ScopeView(hs[request_tuple].scope, msg), "handler") >>)
       ELSE IF dflt = "<unset>" THEN Dispatched("AttributeError", <<>>)
       ELSE IF dflt = "None" THEN Dispatched("ValueError", <<>>)
       ELSE Dispatched("returned", << Call(dflt, msg, "default") >>)

\* A reply that is sent to everyone instead of the sender.
sendToClientBroadcast(addr) == << Datagram(OkReplyText, "255.255.255.255") >>

\* udpService.sendToClient: one OK envelope with LOCAL_IP, sent to addr.
sendToClient(addr) == << Datagram(OkReplyText, addr) >>

\* udpService(data, addr): the datagrams it sends (addr is the destination)
\* and the class of the exception that leaves it, "" when it returns.  The
\* executor is new: one registration, no default handler.  In the handler of
\* ValueError, e.with_traceback() lacks its argument and raises TypeError
\* before anything is sent.
ServiceDone(replies, raised) == [replies |-> replies, raised |-> raised]

udpService(pdata, addr) ==
    LET hs == (<<REQUEST_POST, PyStr(ClientIdentifier)>> :>
                    [action |-> "sendToClient", scope |-> "command"])
        d == executeHandlersOn(TRUE, hs, "<unset>", pdata)
    IN IF d.result = "returned" THEN ServiceDone(sendToClient(addr), "")
       ELSE IF d.result = "ValueError" THEN ServiceDone(<<>>, "TypeError")
       ELSE ServiceDone(<<>>, d.result)

\* What the listener did for one datagram.
Handled(dg, dec, replies, raised) ==
    [data |-> dg.data, addr |-> dg.addr, decoded |-> dec,
     replies |-> replies, raised |-> raised]

\* One pass of actionWrapper's try block on a received datagram:
\* action(handler.deserializeMessageAsProtocolData(conn.decode()), addr).
onDatagram(dg) ==
    LET dec == Deserialize(dg.data)
    IN IF IsRaised(dec) THEN Handled(dg, dec, <<>>, dec.s)
       ELSE LET r == udpService(dec, dg.addr)
            IN Handled(dg, dec, r.replies, r.raised)

\* How a searchServer call ended: it returned addr, (None, None) or None, or
\* an exception left it.
SearchPending == [kind |-> "pending", addr |-> ""]
ReturnedAddr(addr) == [kind |-> "addr", addr |-> addr]
NotFound == [kind |-> "(None, None)", addr |-> ""]
ReturnedNone == [kind |-> "None", addr |-> ""]
SearchRaised(cls) == [kind |-> "raised " \o cls, addr |-> ""]

\* A check that lets every reply pass.
InvalidResponseNever(response) == FALSE

\* if response.getType() != RESPONSE.OK: raise ValueError(...)
InvalidResponse(response) == getType(response) # RESPONSE_OK

\* searchServer from the return of recvfrom on.  ValueError (of which
\* JSONDecodeError is a subclass) is caught and answered with (None, None);
\* 'return addr' stands inside 'if logger:', so without a logger the call
\* runs on to s.close() and returns None.
searchServerOnReply(dg, logger) ==
    LET response == Deserialize(dg.data)
    IN IF IsRaised(response)
       THEN (IF response.s \in {"ValueError", "JSONDecodeError"}
             THEN NotFound ELSE SearchRaised(response.s))
       ELSE IF InvalidResponse(response) THEN NotFound
       ELSE IF logger THEN ReturnedAddr(dg.addr)
       ELSE ReturnedNone

\* except socket.timeout: 'return None, None' stands inside 'if logger:'.
searchServerOnTimeout(logger) == IF logger THEN NotFound ELSE ReturnedNone

\* except socket.error: errno 10054 is logged and the call runs on to
\* s.close(); any other error is raised again.
searchServerOnSocketError(errno, logger) ==
    IF errno = 10054 THEN ReturnedNone ELSE SearchRaised("OSError")

\* The server has started its listener thread; no client is searching.
DiscInit ==
    /\ stop = FALSE
    /\ udpInbox = <<>>
    /\ udpCount = 0
    /\ udpPc = "while"
    /\ udpErr = ""
    /\ udpLast = Handled(NoDatagram, Nothing, <<>>, "")
    /\ ssPc = "idle"
    /\ ssLogger = FALSE
    /\ ssInbox = <<>>
    /\ ssGot = NoDatagram
    /\ ssResult = SearchPending

DiscIdle == DiscInit

\* A datagram sent to the discovery port reaches the listener's socket
\* unless that socket is closed.
Arrive(dg) == IF udpPc = "closed" THEN udpInbox ELSE Append(udpInbox, dg)

\* stop.set(), by the console's quit command.
SetStop ==
    /\ ~stop
    /\ stop' = TRUE
    /\ UNCHANGED <<udpInbox, udpCount, udpPc, udpErr, udpLast,
                   ssPc, ssLogger, ssInbox, ssGot, ssResult>>
    /\ UNCHANGED nonDiscVars

\* actionWrapper: while not stop.is_set(); after the loop the socket is closed.
UdpLoopTest ==
    /\ udpPc = "while"
    /\ udpPc' = IF stop THEN "closed" ELSE "recvfrom"
    /\ udpInbox' = IF stop THEN <<>> ELSE udpInbox
    /\ UNCHANGED <<stop, udpCount, udpErr, udpLast, ssPc, ssLogger, ssInbox, ssGot, ssResult>>
    /\ UNCHANGED nonDiscVars

\* actionWrapper: recvfrom returns a datagram and the action runs on it; only
\* socket.timeout is caught, so any exception ends the thread.  A reply sent
\* to the client reaches searchServer's socket while that call waits.
UdpRecvfrom ==
    /\ udpPc = "recvfrom"
    /\ udpInbox # <<>>
    /\ LET h == onDatagram(Head(udpInbox))
           forClient == SelectSeq(h.replies, LAMBDA r : r.addr = ClientAddr)
       IN /\ udpLast' = h
          /\ udpPc' = IF h.raised = "" THEN "while" ELSE "crashed"
          /\ udpErr' = h.raised
          /\ ssInbox' = IF ssPc = "recvfrom"
                        THEN ssInbox \o [i \in 1 .. Len(forClient) |->
                                            Datagram(forClient[i].data, ServerAddr)]
                        ELSE ssInbox
    /\ udpInbox' = Tail(udpInbox)
    /\ UNCHANGED <<stop, udpCount, ssPc, ssLogger, ssGot, ssResult>>
    /\ UNCHANGED nonDiscVars

\* actionWrapper: recvfrom times out after 3 seconds; continue.
UdpTimeout ==
    /\ udpPc = "recvfrom"
    /\ udpInbox = <<>>
    /\ udpPc' = "while"
    /\ UNCHANGED <<stop, udpInbox, udpCount, udpErr, udpLast,
                   ssPc, ssLogger, ssInbox, ssGot, ssResult>>
    /\ UNCHANGED nonDiscVars

\* Another host sends a datagram to the discovery port.
OtherProbe(doc) ==
    /\ udpCount < MaxDatagrams
    /\ udpCount' = udpCount + 1
    /\ udpInbox' = Arrive(Datagram(doc, OtherAddr))
    /\ UNCHANGED <<stop, udpPc, udpErr, udpLast, ssPc, ssLogger, ssInbox, ssGot, ssResult>>
    /\ UNCHANGED nonDiscVars

\* searchServer(serverPort, identifier, logger) up to its recvfrom: the probe
\* is broadcast and the socket gets a timeout of 3 seconds.
SearchSend(logger) ==
    /\ ssPc \in {"idle", "done"}
    /\ udpCount < MaxDatagrams
    /\ udpCount' = udpCount + 1
    /\ udpInbox' = Arrive(Datagram(ProbeText(ClientIdentifier), ClientAddr))
    /\ ssPc' = "recvfrom"
    /\ ssLogger' = logger
    /\ ssInbox' = <<>>
    /\ ssGot' = NoDatagram
    /\ ssResult' = SearchPending
    /\ UNCHANGED <<stop, udpPc, udpErr, udpLast>>
    /\ UNCHANGED nonDiscVars

\* Another host answers the probe.
RogueReply(doc) ==
    /\ ssPc = "recvfrom"
    /\ ssInbox = <<>>
    /\ ssInbox' = << Datagram(doc, RogueAddr) >>
    /\ UNCHANGED <<stop, udpInbox, udpCount, udpPc, udpErr, udpLast,
                   ssPc, ssLogger, ssGot, ssResult>>
    /\ UNCHANGED nonDiscVars

\* searchServer: recvfrom returns the first datagram that arrived.
SearchRecv ==
    /\ ssPc = "recvfrom"
    /\ ssInbox # <<>>
    /\ ssGot' = Head(ssInbox)
    /\ ssResult' = searchServerOnReply(Head(ssInbox), ssLogger)
    /\ ssInbox' = <<>>
    /\ ssPc' = "done"
    /\ UNCHANGED <<stop, udpInbox, udpCount, udpPc, udpErr, udpLast, ssLogger>>
    /\ UNCHANGED nonDiscVars

\* searchServer: nothing arrived within the 3 seconds.
SearchTimeout ==
    /\ ssPc = "recvfrom"
    /\ ssInbox = <<>>
    /\ ssGot' = TimedOut
    /\ ssResult' = searchServerOnTimeout(ssLogger)
    /\ ssPc' = "done"
    /\ UNCHANGED <<stop, udpInbox, udpCount, udpPc, udpErr, udpLast, ssLogger, ssInbox>>
    /\ UNCHANGED nonDiscVars

\* searchServer: recvfrom raises socket.error with the given errno.
SearchSocketError(errno) ==
    /\ ssPc = "recvfrom"
    /\ ssInbox = <<>>
    /\ ssGot' = SocketError
    /\ ssResult' = searchServerOnSocketError(errno, ssLogger)
    /\ ssPc' = "done"
    /\ UNCHANGED <<stop, udpInbox, udpCount, udpPc, udpErr, udpLast, ssLogger, ssInbox>>
    /\ UNCHANGED nonDiscVars

DiscNext ==
    \/ SetStop
    \/ UdpLoopTest
    \/ UdpRecvfrom
    \/ UdpTimeout
    \/ \E doc \in OtherProbes : OtherProbe(doc)
    \/ \E logger \in BOOLEAN : SearchSend(logger)
    \/ \E doc \in RogueReplies : RogueReply(doc)
    \/ SearchRecv
    \/ SearchTimeout
    \/ \E errno \in {10054, 10040} : SearchSocketError(errno)

----------------------------------------------------------------------------
(***************************************************************************)
(* One session: clientHandler and the request handlers                     *)
(* (src/elerpServer.py), with the store of src/database.py                 *)
(***************************************************************************)

SERVER_VERSION == "2.0.0"

\* The store: the names of the rows of worksheets (each with its path row),
\* in insertion order, and the numbers of rows of records and class_records.
Store(worksheets, records, classRecords) ==
    [worksheets |-> worksheets, records |-> records, classRecords |-> classRecords]

\* obj[key] for a str key: KeyError when a dict lacks the key, TypeError when
\* obj is not a dict.
Subscript(obj, key) ==
    IF obj.t = "dict"
    THEN (IF key \in DOMAIN obj.map THEN obj.map[key] ELSE Raised("KeyError"))
    ELSE Raised("TypeError")

\* lst[i] on a list: TypeError when i is no integer, IndexError when it is
\* out of range; a negative index counts from the end.
ListIndex(lst, i) ==
    IF i.t \notin {"int", "bool"} THEN Raised("TypeError")
    ELSE IF i.n >= 0 /\ i.n < Len(lst.items) THEN lst.items[i.n + 1]
    ELSE IF i.n < 0 /\ -i.n <= Len(lst.items) THEN lst.items[Len(lst.items) + i.n + 1]
    ELSE Raised("IndexError")

\* handler.prepMessage(kind, mainMessage=body).serializeMessage()
Reply(kind, body) ==
    Serialize(PyDict("type" :> kind @@ "command" :> PyNone @@ "message" :> body))

\* What a handler did: the frames it sent, the class of the exception that
\* left it ("" when it returned), the store and the cached count after it.
HandlerDone(replies, raised, st, meta) ==
    [replies |-> replies, raised |-> raised, store |-> st, meta |-> meta]

\* sendMessage(conn, reply.encode()): on a connection the peer has reset,
\* sendall raises ConnectionResetError and nothing is sent.
Send(text, reset, st, meta) ==
    IF reset THEN HandlerDone(<<>>, "ConnectionResetError", st, meta)
    ELSE HandlerDone(<< text >>, "", st, meta)

getTestHandler(msg, reset, st, meta) ==
    Send(Reply(RESPONSE_OK, PyDict(EmptyMap)), reset, st, meta)

getVersionHandler(msg, reset, st, meta) ==
    Send(Reply(RESPONSE_OK, PyStr(SERVER_VERSION)), reset, st, meta)

getGlobalDataHandler(msg, reset, st, meta) ==
    Send(Reply(RESPONSE_OK, PyStr(ProgResText)), reset, st, meta)

getRecentUsageHandler(msg, reset, st, meta) ==
    Send(Reply(RESPONSE_OK, PyStr(DumpsRows(st.records))), reset, st, meta)

getRecentUploadedHandler(msg, reset, st, meta) ==
    Send(Reply(RESPONSE_OK, PyStr(DumpsRows(Len(st.worksheets)))), reset, st, meta)

\* getUnusedWorksheets: message['class'] is evaluated before anything is sent.
getUnusedWorksheets(msg, reset, st, meta) ==
    LET class == Subscript(msg, "class")
    IN IF IsRaised(class) THEN HandlerDone(<<>>, class.s, st, meta)
       ELSE Send(Reply(RESPONSE_OK, PyStr(DumpsRows(Len(st.worksheets)))), reset, st, meta)

getTotalWorksheets(msg, reset, st, meta) ==
    Send(Reply(RESPONSE_OK, PyInt(meta)), reset, st, meta)

\* What handelUpload did: the reply text and the store after it, or the
\* exception that leaves it.
UploadDone(text, raised, st) == [text |-> text, raised |-> raised, store |-> st]

\* handelUpload without the try around the write: the error of the write
\* leaves it.
handelUploadUncaught(request, writeFails, st) ==
    LET fileData == Subscript(request, "fileData")
        form == Subscript(request, "form")
        subject == Subscript(request, "subject")
        name == Subscript(request, "name")
        description == Subscript(request, "description")
        creationDate == Subscript(request, "creationDate")
        fields == << fileData, form, subject, name, description, creationDate >>
    IN IF \E i \in 1 .. 6 : IsRaised(fields[i])
       THEN UploadDone(Nothing,
                fields[CHOOSE i \in 1 .. 6 :
                    IsRaised(fields[i]) /\ \A j \in 1 .. i - 1 : ~IsRaised(fields[j])].s, st)
       ELSE IF PyNone \in {form, subject, name, fileData}
       THEN UploadDone(Reply(RESPONSE_ERROR, PyEnum("STATUS", "empty_parameter")), "", st)
       ELSE LET formRes == ListIndex(ProgRes.map["forms"], form)
                subjectRes == ListIndex(ProgRes.map["subjects"], subject)
            IN IF IsRaised(formRes) THEN UploadDone(Nothing, formRes.s, st)
               ELSE IF IsRaised(subjectRes) THEN UploadDone(Nothing, subjectRes.s, st)
               ELSE IF formRes = PyNone \/ subjectRes = PyNone
               THEN UploadDone(Reply(RESPONSE_ERROR, PyEnum("STATUS", "invalid_parameter")), "", st)
               ELSE IF writeFails \/ fileData.t # "str" \/ name.t # "str"
               THEN UploadDone(Nothing, "OSError", st)
               ELSE UploadDone(Reply(RESPONSE_OK, STATUS_SUCCESS), "",
                        [st EXCEPT !.worksheets = Append(@, name.s)])

\* handelUpload(request).  writeFails tells that creating or writing the
\* file fails; decoding a fileData or joining a name that is no str fails too.
handelUpload(request, writeFails, st) ==
    LET fileData == Subscript(request, "fileData")
        form == Subscript(request, "form")
        subject == Subscript(request, "subject")
        name == Subscript(request, "name")
        description == Subscript(request, "description")
        creationDate == Subscript(request, "creationDate")
        fields == << fileData, form, subject, name, description, creationDate >>
    IN IF \E i \in 1 .. 6 : IsRaised(fields[i])
       THEN UploadDone(Nothing,
                fields[CHOOSE i \in 1 .. 6 :
                    IsRaised(fields[i]) /\ \A j \in 1 .. i - 1 : ~IsRaised(fields[j])].s, st)
       ELSE IF PyNone \in {form, subject, name, fileData}
       THEN UploadDone(Reply(RESPONSE_ERROR, PyEnum("STATUS", "empty_parameter")), "", st)
       ELSE LET formRes == ListIndex(ProgRes.map["forms"], form)
                subjectRes == ListIndex(ProgRes.map["subjects"], subject)
            IN IF IsRaised(formRes) THEN UploadDone(Nothing, formRes.s, st)
               ELSE IF IsRaised(subjectRes) THEN UploadDone(Nothing, subjectRes.s, st)
               ELSE IF formRes = PyNone \/ subjectRes = PyNone
               THEN UploadDone(Reply(RESPONSE_ERROR, PyEnum("STATUS", "invalid_parameter")), "", st)
               ELSE IF writeFails \/ fileData.t # "str" \/ name.t # "str"
               THEN UploadDone(Reply(RESPONSE_ERROR, PyEnum("STATUS", "upload_failed")), "", st)
               ELSE UploadDone(Reply(RESPONSE_OK, STATUS_SUCCESS), "",
                        [st EXCEPT !.worksheets = Append(@, name.s)])

\* postUploadWorksheet: the reply of handelUpload is sent, then the cached
\* count is read again from the store.
sendUploadReply(u, reset, meta) ==
    IF u.raised # "" THEN HandlerDone(<<>>, u.raised, u.store, meta)
    ELSE IF reset THEN HandlerDone(<<>>, "ConnectionResetError", u.store, meta)
    ELSE HandlerDone(<< u.text >>, "", u.store, Len(u.store.worksheets))

postUploadWorksheet(msg, reset, writeFails, st, meta) ==
    sendUploadReply(handelUpload(msg, writeFails, st), reset, meta)

\* The content of a stored worksheet file.
FileData == PyBytes(<< 104, 105 >>)

\* postRegisterUsage: getWorksheetId indexes the row of the name, which is
\* None for an unknown name; the file is sent; then the usage record and the
\* class record are written, each after the fields it needs are read.
postRegisterUsage(msg, reset, st, meta) ==
    LET worksheet == Subscript(msg, "worksheet")
        known == \E i \in 1 .. Len(st.worksheets) : PyStr(st.worksheets[i]) = worksheet
        class == Subscript(msg, "class")
        teacher == Subscript(msg, "teacher")
        section == Subscript(msg, "section")
        subTeacher == Subscript(msg, "subTeacher")
        used == [st EXCEPT !.records = @ + 1]
        sent == << Reply(RESPONSE_OK, FileData) >>
    IN IF IsRaised(worksheet) THEN HandlerDone(<<>>, worksheet.s, st, meta)
       ELSE IF ~known THEN HandlerDone(<<>>, "TypeError", st, meta)
       ELSE IF reset THEN HandlerDone(<<>>, "ConnectionResetError", st, meta)
       ELSE IF IsRaised(class) THEN HandlerDone(sent, class.s, st, meta)
       ELSE IF IsRaised(teacher) THEN HandlerDone(sent, teacher.s, st, meta)
       ELSE IF IsRaised(section) THEN HandlerDone(sent, section.s, used, meta)
       ELSE IF IsRaised(subTeacher) THEN HandlerDone(sent, subTeacher.s, used, meta)
       ELSE HandlerDone(sent, "", [used EXCEPT !.classRecords = @ + 1], meta)

\* The registrations clientHandler makes: requestType defaults to REQUEST.GET
\* and scope to ExecutorScope.MESSAGE.
SessionHandlers ==
    (<<REQUEST_GET, PyStr("testConnection")>> :> [action |-> "getTestHandler", scope |-> "message"])
    @@ (<<REQUEST_GET, PyStr("checkVersion")>> :> [action |-> "getVersionHandler", scope |-> "message"])
    @@ (<<REQUEST_GET, PyStr("globalData")>> :> [action |-> "getGlobalDataHandler", scope |-> "message"])
    @@ (<<REQUEST_GET, PyStr("recentUsage")>> :> [action |-> "getRecentUsageHandler", scope |-> "message"])
    @@ (<<REQUEST_GET, PyStr("recentUploaded")>> :> [action |-> "getRecentUploadedHandler", scope |-> "message"])
    @@ (<<REQUEST_GET, PyStr("unusedWorksheets")>> :> [action |-> "getUnusedWorksheets", scope |-> "message"])
    @@ (<<REQUEST_POST, PyStr("uploadWorksheet")>> :> [action |-> "postUploadWorksheet", scope |-> "message"])
    @@ (<<REQUEST_POST, PyStr("registerUsage")>> :> [action |-> "postRegisterUsage", scope |-> "message"])
    @@ (<<REQUEST_GET, PyStr("totalWorksheets")>> :> [action |-> "getTotalWorksheets", scope |-> "message"])

\* The call of a registered action on its argument.
RunHandler(action, msg, reset, writeFails, st, meta) ==
    IF action = "getTestHandler" THEN getTestHandler(msg, reset, st, meta)
    ELSE IF action = "getVersionHandler" THEN getVersionHandler(msg, reset, st, meta)
    ELSE IF action = "getGlobalDataHandler" THEN getGlobalDataHandler(msg, reset, st, meta)
    ELSE IF action = "getRecentUsageHandler" THEN getRecentUsageHandler(msg, reset, st, meta)
    ELSE IF action = "getRecentUploadedHandler" THEN getRecentUploadedHandler(msg, reset, st, meta)
    ELSE IF action = "getUnusedWorksheets" THEN getUnusedWorksheets(msg, reset, st, meta)
    ELSE IF action = "postUploadWorksheet" THEN postUploadWorksheet(msg, reset, writeFails, st, meta)
    ELSE IF action = "postRegisterUsage" THEN postRegisterUsage(msg, reset, st, meta)
    ELSE getTotalWorksheets(msg, reset, st, meta)

\* A request as the client serializes it.
Request(kind, command, body) ==
    Serialize(PyDict("type" :> kind @@ "command" :> PyStr(command) @@ "message" :> body))

UploadBody ==
    PyDict("fileData" :> PyStr("aGk=") @@ "form" :> PyInt(0) @@ "subject" :> PyInt(0)
           @@ "name" :> PyStr("w2.pdf") @@ "description" :> PyStr("d")
           @@ "creationDate" :> PyStr("2024-01-01"))

\* registerUsage as the shipped client sends it: worksheet, class and teacher.
UsageBody(worksheet) ==
    PyDict("worksheet" :> PyStr(worksheet) @@ "class" :> PyStr("1A") @@ "teacher" :> PyStr("t"))

\* The payloads of the frames the client sends: every registered request,
\* with bodies that carry the fields the handler reads and bodies that lack
\* one, a request nobody registered, and text that is not JSON.
SessionRequests ==
    { Request(REQUEST_GET, c, PyDict(EmptyMap)) :
        c \in {"testConnection", "checkVersion", "globalData", "recentUsage",
               "recentUploaded", "totalWorksheets", "unusedWorksheets", "bogus"} }
    \cup { Request(REQUEST_GET, "unusedWorksheets", PyDict("class" :> PyStr("1A"))),
           Request(REQUEST_POST, "uploadWorksheet", UploadBody),
           Request(REQUEST_POST, "uploadWorksheet",
                   PyDict([k \in DOMAIN UploadBody.map \ {"name"} |-> UploadBody.map[k]])),
           Request(REQUEST_POST, "uploadWorksheet",
                   PyDict([UploadBody.map EXCEPT !["form"] = PyNone])),
           Request(REQUEST_POST, "uploadWorksheet",
                   PyDict([UploadBody.map EXCEPT !["form"] = PyInt(5)])),
           Request(REQUEST_POST, "registerUsage", UsageBody("w1")),
           Request(REQUEST_POST, "registerUsage", UsageBody("w9")),
           Request(REQUEST_POST, "registerUsage",
                   PyDict([k \in DOMAIN UsageBody("w1").map \cup {"section", "subTeacher"} |->
                            IF k = "section" THEN PyInt(1)
                            ELSE IF k = "subTeacher" THEN PyStr("s")
                            ELSE UsageBody("w1").map[k]])),
           Malformed }

\* What one pass of the loop did: what recvMessage gave ("frame", "empty"
\* for a frame of length 0, "None", "ConnectionResetError"), the decoded
\* request, the action that was called, whether the peer had reset the
\* connection when the reply was to be sent, the frames sent and the class
\* of the exception raised in the pass.
Pass(got, request, action, reset, replies, raised) ==
    [got |-> got, request |-> request, action |-> action, reset |-> reset,
     replies |-> replies, raised |-> raised]

NoPass == Pass("", Nothing, "", FALSE, <<>>, "")

\* Where a pass leaves the session: the loop goes on ("while"), the loop is
\* left and conn.close() is called ("closed"), or an exception leaves
\* clientHandler ("crashed").
PassEnd(pc, err, bound, last, st, meta) ==
    [pc |-> pc, err |-> err, ipBound |-> bound, last |-> last, store |-> st, meta |-> meta]

\* A test that never takes a read for the end of the stream.
NotDataNever(got) == FALSE

\* if not data: None and the empty bytearray are both false.
NotData(got) == got \in {"None", "empty"}

\* except ConnectionResetError: the log line reads addressbook[ip]; ip is
\* assigned only after the first successful read, so before that the handler
\* raises UnboundLocalError; otherwise conn.close() and break.
onConnectionReset(bound, last, st, meta) ==
    IF bound THEN PassEnd("closed", "", bound, last, st, meta)
    ELSE PassEnd("crashed", "UnboundLocalError", bound, last, st, meta)

\* The end of a pass in which the called handler did h.
onHandled(got, request, action, reset, h) ==
    LET last == Pass(got, request, action, reset, h.replies, h.raised)
    IN IF h.raised = "" THEN PassEnd("while", "", TRUE, last, h.store, h.meta)
       ELSE IF h.raised = "ConnectionResetError"
       THEN onConnectionReset(TRUE, last, h.store, h.meta)
       ELSE PassEnd("crashed", h.raised, TRUE, last, h.store, h.meta)

\* executor.executeHandlers() came to d: an exception, or the call of the
\* registered action.
onDispatched(got, request, d, reset, writeFails, st, meta) ==
    IF d.result # "returned"
    THEN PassEnd("crashed", d.result, TRUE,
                 Pass(got, request, "", FALSE, <<>>, d.result), st, meta)
    ELSE onHandled(got, request, d.calls[1].action, reset,
                   RunHandler(d.calls[1].action, d.calls[1].arg, reset, writeFails, st, meta))

\* handler.deserializeMessageAsProtocolData(data.decode()) came to request:
\* an exception, or the envelope that is given to the executor, which has
\* the nine registrations and no default handler.
onDecoded(got, request, reset, writeFails, st, meta) ==
    IF IsRaised(request)
    THEN PassEnd("crashed", request.s, TRUE,
                 Pass(got, request, "", FALSE, <<>>, request.s), st, meta)
    ELSE onDispatched(got, request,
                      executeHandlersOn(TRUE, SessionHandlers, "<unset>", request),
                      reset, writeFails, st, meta)

\* The try block of clientHandler for what recvMessage gave: the payload
\* doc of a frame, or nothing.
onRecv(got, doc, reset, writeFails, bound, st, meta) ==
    IF got = "ConnectionResetError"
    THEN onConnectionReset(bound, Pass(got, Nothing, "", FALSE, <<>>, got), st, meta)
    ELSE IF NotData(got)
    THEN PassEnd("closed", "", bound, Pass(got, Nothing, "", FALSE, <<>>, ""), st, meta)
    ELSE IF got = "None"
    THEN PassEnd("crashed", "AttributeError", TRUE,
                 Pass(got, Nothing, "", FALSE, <<>>, "AttributeError"), st, meta)
    ELSE onDecoded(got, Deserialize(IF got = "empty" THEN Malformed ELSE doc),
                   reset, writeFails, st, meta)

\* The store when the server starts: it holds one worksheet.
InitialStore == Store(<< "w1" >>, 0, 0)

\* tcpService has started the session thread; database_metadata['count'] was
\* read from the store when the module was loaded.
SessInit ==
    /\ sessPc = "while"
    /\ sessErr = ""
    /\ ipBound = FALSE
    /\ served = 0
    /\ sessLast = NoPass
    /\ store = InitialStore
    /\ metaCount = Len(InitialStore.worksheets)

SessIdle == SessInit

\* clientHandler: while not stop.is_set(); after the loop, conn.close().
SessLoopTest ==
    /\ sessPc = "while"
    /\ sessPc' = IF stop THEN "closed" ELSE "recvMessage"
    /\ UNCHANGED <<sessErr, ipBound, served, sessLast, store, metaCount>>
    /\ UNCHANGED nonSessVars

\* One pass of the loop from the return of recvMessage on.
SessEnd(e) ==
    /\ sessPc' = e.pc
    /\ sessErr' = e.err
    /\ ipBound' = e.ipBound
    /\ sessLast' = e.last
    /\ store' = e.store
    /\ metaCount' = e.meta

SessPass(got, doc, reset, writeFails) ==
    /\ SessEnd(onRecv(got, doc, reset, writeFails, ipBound, store, metaCount))
    /\ served' = served + 1
    /\ UNCHANGED nonSessVars

\* recvMessage returns the payload of a frame the client sent; the client may
\* reset the connection before the reply is sent.
SessFrame(doc, reset, writeFails) ==
    /\ sessPc = "recvMessage"
    /\ served < MaxRequests
    /\ SessPass("frame", doc, reset, writeFails)

\* recvMessage returns the payload of a frame of length 0.
SessEmptyFrame ==
    /\ sessPc = "recvMessage"
    /\ SessPass("empty", Malformed, FALSE, FALSE)

\* recvMessage returns None: the client closed the connection.
SessEof ==
    /\ sessPc = "recvMessage"
    /\ SessPass("None", Malformed, FALSE, FALSE)

\* recvMessage raises ConnectionResetError: the client reset the connection.
SessReset ==
    /\ sessPc = "recvMessage"
    /\ SessPass("ConnectionResetError", Malformed, FALSE, FALSE)

SessNext ==
    \/ SessLoopTest
    \/ \E doc \in SessionRequests, reset \in BOOLEAN, writeFails \in BOOLEAN :
          SessFrame(doc, reset, writeFails)
    \/ SessEmptyFrame
    \/ SessEof
    \/ SessReset
    \/ SetStop

----------------------------------------------------------------------------
(***************************************************************************)
(* The server process: the accept thread of createTCPThread              *)
(* (src/networking.py), tcpService, the session threads it starts and the  *)
(* discovery listener, all on one stop flag, one store and one cached      *)
(* count (src/elerpServer.py)                                              *)
(***************************************************************************)

\* A connection that has not been accepted has no session thread.
NoSession ==
    [pc |-> "none", err |-> "", ipBound |-> FALSE, served |-> 0, last |-> NoPass,
     after |-> FALSE]

\* The connections that were accepted.
Accepted == { i \in 1 .. MaxSessions : sess[i].pc # "none" }

\* The session of the connection ended with an error: an exception left
\* clientHandler, or the client reset the connection.
EndedWithError(s) ==
    \/ s.pc = "crashed"
    \/ s.pc = "closed" /\ s.last.got = "ConnectionResetError"

\* A variant of tcpService that would call clientHandler itself.
tcpServiceInline(i) == "caller"

\* tcpService: clientHandler is made the target of a new daemon thread, the
\* thread is started and tcpService returns; the result names who runs the
\* session.
tcpService(i) == "thread"

\* A session thread as tcpService starts it; after records whether a session
\* had ended with an error before.
Started ==
    [pc |-> "while", err |-> "", ipBound |-> FALSE, served |-> 0, last |-> NoPass,
     after |-> \E j \in Accepted : EndedWithError(sess[j])]

\* actionWrapper calls action(conn, addr) and catches only socket.timeout:
\* while the call has not returned the accept thread is in it, and an
\* exception that leaves the call ends the accept thread.
AccAfter(pc) ==
    IF accPc # "action" THEN accPc
    ELSE IF pc = "crashed" THEN "crashed"
    ELSE IF pc = "closed" THEN "while"
    ELSE "action"

\* The server has bound and listens; both listener threads are started and
\* nobody has connected.
SrvInit ==
    /\ accPc = "while"
    /\ pending = 0
    /\ sess = [i \in 1 .. MaxSessions |-> NoSession]

SrvIdle == SrvInit

\* What the steps of the server leave alone of the single session above.
sessOnly == <<sessPc, sessErr, ipBound, served, sessLast>>

\* A client connects to the TCP port; the connection waits in the queue of
\* the listening socket.
Connect ==
    /\ accPc # "closed"
    /\ pending + Cardinality(Accepted) < MaxSessions
    /\ pending' = pending + 1
    /\ UNCHANGED <<accPc, sess, sessVars, discVars, framingVars, execVars, codecVars, auxVars>>

\* actionWrapper: while not stop.is_set(); after the loop the listening
\* socket is closed.
AccLoopTest ==
    /\ accPc = "while"
    /\ accPc' = IF stop THEN "closed" ELSE "accept"
    /\ pending' = IF stop THEN 0 ELSE pending
    /\ UNCHANGED <<sess, sessVars, discVars, framingVars, execVars, codecVars, auxVars>>

\* actionWrapper: accept() returns a connection and action(conn, addr), that
\* is tcpService, runs on it.
AccAccept ==
    /\ accPc = "accept"
    /\ pending > 0
    /\ pending' = pending - 1
    /\ sess' = [sess EXCEPT ![Cardinality(Accepted) + 1] = Started]
    /\ accPc' = IF tcpService(Cardinality(Accepted) + 1) = "thread" THEN "while" ELSE "action"
    /\ UNCHANGED <<sessVars, discVars, framingVars, execVars, codecVars, auxVars>>

\* actionWrapper: accept() times out after 3 seconds; continue.
AccTimeout ==
    /\ accPc = "accept"
    /\ pending = 0
    /\ accPc' = "while"
    /\ UNCHANGED <<pending, sess, sessVars, discVars, framingVars, execVars, codecVars, auxVars>>

\* clientHandler of connection i: while not stop.is_set(); after the loop,
\* conn.close().
SrvLoopTest(i) ==
    /\ sess[i].pc = "while"
    /\ sess' = [sess EXCEPT ![i].pc = IF stop THEN "closed" ELSE "recvMessage"]
    /\ accPc' = AccAfter(sess'[i].pc)
    /\ UNCHANGED <<pending, sessVars, discVars, framingVars, execVars, codecVars, auxVars>>

\* The session of connection i after the pass that ended as e.  A pass that
\* called postUploadWorksheet and sent its reply stands between sendMessage
\* and the assignment of database_metadata['count'].
SrvEnd(i, e) ==
    /\ sess' = [sess EXCEPT ![i].pc = IF e.last.action = "postUploadWorksheet" /\ e.pc = "while"
                                      THEN "count" ELSE e.pc,
                            ![i].err = e.err,
                            ![i].ipBound = e.ipBound,
                            ![i].served = @ + 1,
                            ![i].last = e.last]
    /\ store' = e.store
    /\ metaCount' = IF e.last.action = "postUploadWorksheet" THEN metaCount ELSE e.meta
    /\ accPc' = AccAfter(e.pc)
    /\ UNCHANGED <<pending, sessOnly, discVars, framingVars, execVars, codecVars, auxVars>>

\* The frames the first n sessions have read.
RECURSIVE FramesServed(_)
FramesServed(n) == IF n = 0 THEN 0 ELSE sess[n].served + FramesServed(n - 1)

\* The requests the clients of the server send.
ServerRequests ==
    { Request(REQUEST_GET, "totalWorksheets", PyDict(EmptyMap)),
      Request(REQUEST_GET, "bogus", PyDict(EmptyMap)),
      Request(REQUEST_POST, "uploadWorksheet", UploadBody),
      Request(REQUEST_POST, "registerUsage", UsageBody("w1")),
      Malformed }

\* recvMessage of session i returns the payload of a frame its client sent.
SrvFrame(i, doc) ==
    /\ sess[i].pc = "recvMessage"
    /\ FramesServed(MaxSessions) + udpCount < MaxTraffic
    /\ SrvEnd(i, onRecv("frame", doc, FALSE, FALSE, sess[i].ipBound, store, metaCount))

\* postUploadWorksheet of session i: database_metadata['count'] is read
\* again from the store, and the pass is over.
SrvCount(i) ==
    /\ sess[i].pc = "count"
    /\ metaCount' = Len(store.worksheets)
    /\ sess' = [sess EXCEPT ![i].pc = "while"]
    /\ UNCHANGED <<accPc, pending, sessOnly, store, discVars, framingVars, execVars, codecVars, auxVars>>

\* recvMessage of session i returns None: its client closed the connection.
SrvEof(i) ==
    /\ sess[i].pc = "recvMessage"
    /\ SrvEnd(i, onRecv("None", Malformed, FALSE, FALSE, sess[i].ipBound, store, metaCount))

\* recvMessage of session i raises ConnectionResetError.
SrvReset(i) ==
    /\ sess[i].pc = "recvMessage"
    /\ SrvEnd(i, onRecv("ConnectionResetError", Malformed, FALSE, FALSE,
                        sess[i].ipBound, store, metaCount))

\* The datagrams other hosts send to the discovery port of the server.
ServerProbes == { ProbeText(ClientIdentifier), Malformed }

SrvProbe(doc) ==
    /\ FramesServed(MaxSessions) + udpCount < MaxTraffic
    /\ OtherProbe(doc)

SrvNext ==
    \/ SetStop
    \/ Connect
    \/ AccLoopTest
    \/ AccAccept
    \/ AccTimeout
    \/ \E i \in 1 .. MaxSessions : SrvLoopTest(i)
    \/ \E i \in 1 .. MaxSessions, doc \in ServerRequests : SrvFrame(i, doc)
    \/ \E i \in 1 .. MaxSessions : SrvCount(i)
    \/ \E i \in 1 .. MaxSessions : SrvEof(i)
    \/ \E i \in 1 .. MaxSessions : SrvReset(i)
    \/ \E doc \in ServerProbes : SrvProbe(doc)
    \/ UdpLoopTest
    \/ UdpRecvfrom
    \/ UdpTimeout

\* Every thread that can take a step takes one: the listener threads after
\* their timeouts, and the session threads outside recvMessage.  Clients and
\* other hosts are free to stay silent.
SrvFairness ==
    /\ WF_vars(UdpLoopTest) /\ WF_vars(UdpRecvfrom) /\ WF_vars(UdpTimeout)
    /\ WF_vars(AccLoopTest) /\ WF_vars(AccAccept) /\ WF_vars(AccTimeout)
    /\ \A i \in 1 .. MaxSessions : WF_vars(SrvLoopTest(i)) /\ WF_vars(SrvCount(i))

----------------------------------------------------------------------------
(***************************************************************************)
(* The client's version check: versionCompare (src/main.py).  A string is  *)
(* the sequence of its characters.                                         *)
(***************************************************************************)

DigitValue ==
    ("0" :> 0) @@ ("1" :> 1) @@ ("2" :> 2) @@ ("3" :> 3) @@ ("4" :> 4)
    @@ ("5" :> 5) @@ ("6" :> 6) @@ ("7" :> 7) @@ ("8" :> 8) @@ ("9" :> 9)

\* str.split('.'): the pieces between the dots.
RECURSIVE SplitDots(_)
SplitDots(str) ==
    IF \A i \in 1 .. Len(str) : str[i] # "."
    THEN << str >>
    ELSE LET d == CHOOSE i \in 1 .. Len(str) :
                    str[i] = "." /\ \A j \in 1 .. i - 1 : str[j] # "."
         IN << SubSeq(str, 1, d - 1) >> \o SplitDots(SubSeq(str, d + 1, Len(str)))

\* int(piece) for a piece made of decimal digits.
RECURSIVE IntOf(_)
IntOf(piece) ==
    IF Len(piece) = 0 THEN 0
    ELSE 10 * IntOf(SubSeq(piece, 1, Len(piece) - 1)) + DigitValue[piece[Len(piece)]]

\* [int(i) for i in version.split('.')]
VersionNums(version) ==
    [i \in 1 .. Len(SplitDots(version)) |-> IntOf(SplitDots(version)[i])]

\* The loop over zip(clientNum, serverNum): the first position where the two
\* differ decides; the pairs stop with the shorter list.
compareNums(clientNum, serverNum) ==
    LET n == IF Len(clientNum) < Len(serverNum) THEN Len(clientNum) ELSE Len(serverNum)
        differ == { i \in 1 .. n : serverNum[i] # clientNum[i] }
    IN IF differ = {} THEN 0
       ELSE LET i == CHOOSE k \in differ : \A j \in differ : k <= j
            IN IF serverNum[i] > clientNum[i]
               THEN (IF serverNum[1] = clientNum[1] THEN 1 ELSE 2)
               ELSE 0

\* A comparison that would take its arguments the other way round.
versionCompareSwapped(client, server) == compareNums(VersionNums(server), VersionNums(client))

versionCompare(client, server) == compareNums(VersionNums(client), VersionNums(server))

\* The numerals of the version numbers, and the versions major.minor.patch
\* made of them.
Numerals == { << "0" >>, << "1" >>, << "2" >>, << "1", "0" >> }
VersionStrings ==
    { a \o << "." >> \o b \o << "." >> \o c : a \in Numerals, b \in Numerals, c \in Numerals }

VerInit ==
    /\ vcClient \in VersionStrings
    /\ vcServer \in VersionStrings
    /\ vcResult = << >>

\* No version check is under way.
VerIdle ==
    /\ vcClient = << "1", ".", "0", ".", "7" >>
    /\ vcServer = << "2", ".", "0", ".", "0" >>
    /\ vcResult = << >>


\* checkUpdate calls versionCompare(CLIENT_VERSION, respond).
VersionCheck ==
    /\ vcResult = << >>
    /\ vcResult' = << versionCompare(vcClient, vcServer) >>
    /\ UNCHANGED <<vcClient, vcServer>>
    /\ UNCHANGED <<framingVars, execVars, codecVars, discVars, sessVars, srvVars, raceVars, sideVars>>

VerNext == VersionCheck

----------------------------------------------------------------------------
(***************************************************************************)
(* The module-level ProtocolHandler of src/elerpServer.py, which every     *)
(* session thread and the discovery listener call without a lock.  A       *)
(* thread runs handler.prepMessage(...).serializeMessage() statement by    *)
(* statement (src/src/protocol.py); the dict self.data refers to has an    *)
(* identity, because serializeMessage rebinds self.data to a new dict.     *)
(***************************************************************************)

Threads == 1 .. MaxThreads

\* The replies the handlers prepare: getVersionHandler, getTotalWorksheets
\* and sendToClient of udpService.
ReplyPlans ==
    { [responseObj |-> RESPONSE_OK, mainCommand |-> PyNone, mainMessage |-> PyStr(SERVER_VERSION)],
      [responseObj |-> RESPONSE_OK, mainCommand |-> PyNone, mainMessage |-> PyInt(1)],
      [responseObj |-> RESPONSE_OK, mainCommand |-> PyNone, mainMessage |-> PyStr(LOCAL_IP)] }

\* ProtocolHandler(): self.data = {}; every thread is about to build a reply.
RaceInit ==
    /\ heap = << EmptyMap >>
    /\ cur = 1
    /\ thPlan \in [Threads -> ReplyPlans]
    /\ thPc = [t \in Threads |-> "type"]
    /\ thFinal = [t \in Threads |-> 0]
    /\ thSent = [t \in Threads |-> << >>]

\* No thread builds a reply.
RaceIdle ==
    /\ heap = << EmptyMap >>
    /\ cur = 1
    /\ thPlan = [t \in Threads |->
                    [responseObj |-> RESPONSE_OK, mainCommand |-> PyNone,
                     mainMessage |-> PyStr(SERVER_VERSION)]]
    /\ thPc = [t \in Threads |-> "sent"]
    /\ thFinal = [t \in Threads |-> 0]
    /\ thSent = [t \in Threads |-> << >>]


\* self.data[key] = value
SetItem(key, value) ==
    [heap EXCEPT ![cur] = [k \in DOMAIN heap[cur] \cup {key} |->
                              IF k = key THEN value ELSE heap[cur][k]]]

\* One statement of thread t that only writes into the dict of self.data.
PrepStep(t, pc, key, value, next) ==
    /\ thPc[t] = pc
    /\ heap' = SetItem(key, value)
    /\ thPc' = [thPc EXCEPT ![t] = next]
    /\ UNCHANGED <<cur, thPlan, thFinal, thSent>>
    /\ UNCHANGED <<framingVars, execVars, codecVars, discVars, sessVars, srvVars, verVars, sideVars>>

\* prepMessage: self.data['type'] = responseObj
PrepSetType(t) == PrepStep(t, "type", "type", thPlan[t].responseObj, "command")

\* prepMessage: self.data['command'] = mainCommand
PrepSetCommand(t) == PrepStep(t, "command", "command", thPlan[t].mainCommand, "message")

\* prepMessage: self.data['message'] = mainMessage; return self
PrepSetMessage(t) == PrepStep(t, "message", "message", thPlan[t].mainMessage, "final")

\* serializeMessage: final = self.data
SerializeTake(t) ==
    /\ thPc[t] = "final"
    /\ thFinal' = [thFinal EXCEPT ![t] = cur]
    /\ thPc' = [thPc EXCEPT ![t] = "reset"]
    /\ UNCHANGED <<heap, cur, thPlan, thSent>>
    /\ UNCHANGED <<framingVars, execVars, codecVars, discVars, sessVars, srvVars, verVars, sideVars>>

\* serializeMessage: self.data = {}
SerializeReset(t) ==
    /\ thPc[t] = "reset"
    /\ heap' = Append(heap, EmptyMap)
    /\ cur' = Len(heap) + 1
    /\ thPc' = [thPc EXCEPT ![t] = "dumps"]
    /\ UNCHANGED <<thPlan, thFinal, thSent>>
    /\ UNCHANGED <<framingVars, execVars, codecVars, discVars, sessVars, srvVars, verVars, sideVars>>

\* serializeMessage: return json.dumps(final, cls=ProtocolEncoder); the
\* handler sends the text.
SerializeDumps(t) ==
    /\ thPc[t] = "dumps"
    /\ thSent' = [thSent EXCEPT ![t] = << Serialize(PyDict(heap[thFinal[t]])) >>]
    /\ thPc' = [thPc EXCEPT ![t] = "sent"]
    /\ UNCHANGED <<heap, cur, thPlan, thFinal>>
    /\ UNCHANGED <<framingVars, execVars, codecVars, discVars, sessVars, srvVars, verVars, sideVars>>

RaceNext ==
    \E t \in Threads :
        \/ PrepSetType(t)
        \/ PrepSetCommand(t)
        \/ PrepSetMessage(t)
        \/ SerializeTake(t)
        \/ SerializeReset(t)
        \/ SerializeDumps(t)

----------------------------------------------------------------------------
(***************************************************************************)
(* postRegisterUsage in two sessions at once (src/elerpServer.py): each    *)
(* session is a thread of its own, and each of the three calls into        *)
(* src/database.py opens its own connection and commits on its own, so     *)
(* the calls of two sessions interleave call by call.                      *)
(***************************************************************************)

Registrars == 1 .. MaxSessions

\* The request a session is working on: the session and the number of the
\* request in it.
UsageRequest(s) == << s, ruReq[s] >>

\* Both sessions wait for a request; records and class_records are empty.
UsageInit ==
    /\ recordsTbl = << >>
    /\ classTbl = << >>
    /\ ruPc = [s \in Registrars |-> "recvMessage"]
    /\ ruReq = [s \in Registrars |-> 0]
    /\ ruId = [s \in Registrars |-> 0]

UsageIdle == UsageInit

\* ruPc[s] becomes next.
UsageGoto(s, next) == ruPc' = [ruPc EXCEPT ![s] = next]

\* A registerUsage request arrives and postRegisterUsage sends the file.
UsageArrives(s) ==
    /\ ruPc[s] = "recvMessage"
    /\ ruReq[s] < MaxUsages
    /\ ruReq' = [ruReq EXCEPT ![s] = @ + 1]
    /\ UsageGoto(s, "registerWorksheetUse")
    /\ UNCHANGED <<recordsTbl, classTbl, ruId, clientVars>>
    /\ UNCHANGED <<framingVars, execVars, codecVars, discVars, sessVars, srvVars, verVars, raceVars>>

\* db.registerWorksheetUse(...): INSERT INTO records; the row gets the next
\* record_id.
RegisterWorksheetUse(s) ==
    /\ ruPc[s] = "registerWorksheetUse"
    /\ recordsTbl' = Append(recordsTbl, UsageRequest(s))
    /\ UsageGoto(s, "getLatestRecordId")
    /\ UNCHANGED <<classTbl, ruReq, ruId, clientVars>>
    /\ UNCHANGED <<framingVars, execVars, codecVars, discVars, sessVars, srvVars, verVars, raceVars>>

\* r_id = db.getLatestRecordId(...): SELECT record_id FROM records ORDER BY
\* record_id DESC LIMIT 1.
LatestRecordId(tbl) == Len(tbl)

GetLatestRecordId(s) ==
    /\ ruPc[s] = "getLatestRecordId"
    /\ ruId' = [ruId EXCEPT ![s] = LatestRecordId(recordsTbl)]
    /\ UsageGoto(s, "registerClassRecord")
    /\ UNCHANGED <<recordsTbl, classTbl, ruReq, clientVars>>
    /\ UNCHANGED <<framingVars, execVars, codecVars, discVars, sessVars, srvVars, verVars, raceVars>>

\* db.registerClassRecord(..., r_id, ...): INSERT INTO class_records.
RegisterClassRecord(s) ==
    /\ ruPc[s] = "registerClassRecord"
    /\ classTbl' = Append(classTbl, [by |-> UsageRequest(s), record_id |-> ruId[s]])
    /\ UsageGoto(s, "recvMessage")
    /\ UNCHANGED <<recordsTbl, ruReq, ruId, clientVars>>
    /\ UNCHANGED <<framingVars, execVars, codecVars, discVars, sessVars, srvVars, verVars, raceVars>>

UsageNext ==
    \E s \in Registrars :
        \/ UsageArrives(s)
        \/ RegisterWorksheetUse(s)
        \/ GetLatestRecordId(s)
        \/ RegisterClassRecord(s)

----------------------------------------------------------------------------
(***************************************************************************)
(* The client's start-up (src/main.py): searchServer, the test of its      *)
(* result, connectToServer                                                 *)
(***************************************************************************)

\* The truth value of addr[0] and of addr[1]: of the ip and the port of an
\* address, or of the None and None of (None, None).
Truthy(addr, i) == addr.kind = "addr"

\* if not addr[0] and addr[1]: QMessageBox.critical(...); sys.exit(1)
\* addr[0] of a None raises TypeError.
startupAfterSearch(addr) ==
    IF addr.kind \notin {"addr", "(None, None)"} THEN "crashed"
    ELSE IF ~Truthy(addr, 0) /\ Truthy(addr, 1) THEN "exit"
    ELSE "connectToServer"

\* The client is about to call searchServer.
ClientInit ==
    /\ clPc = "searchServer"
    /\ clAddr = SearchPending

ClientIdle == ClientInit

SideIdle == UsageIdle /\ ClientIdle
AuxIdle == VerIdle /\ RaceIdle /\ SideIdle

\* searchServer(udpPort, 'elerp_client', logger) has ended: an exception
\* that left it ends the start-up, a result is tested and the start-up
\* exits or goes on to connectToServer(addr[0], tcpPort, logger).
ClientStartup ==
    /\ clPc = "searchServer"
    /\ ssPc = "done"
    /\ ssLogger
    /\ clAddr' = ssResult
    /\ clPc' = startupAfterSearch(ssResult)
    /\ UNCHANGED usageVars
    /\ UNCHANGED <<framingVars, execVars, codecVars, discVars, sessVars, srvVars, verVars, raceVars>>

ClientNext ==
    \/ DiscNext
    \/ ClientStartup

----------------------------------------------------------------------------
(***************************************************************************)
(* The management console of the server (src/elerpServer.py, __main__)     *)
(* next to a session: 'reset' and the removal wizard of the GUI change     *)
(* the store while the session thread serves its client.                   *)
(***************************************************************************)

\* db.resetDatabaseToDefault: DELETE FROM worksheets, records and
\* worksheet_paths.
resetDatabaseToDefault(st) == [st EXCEPT !.worksheets = << >>, !.records = 0]

\* db.removeWorksheet and db.removeWorksheetPath for the last row of the
\* table, whose sheet_id is its row number.
removeWorksheet(st) ==
    [st EXCEPT !.worksheets = SubSeq(@, 1, Len(@) - 1)]

\* command == 'reset'
ConsoleReset ==
    /\ ~stop
    /\ store' = resetDatabaseToDefault(store)
    /\ UNCHANGED <<sessPc, sessErr, ipBound, served, sessLast, metaCount>>
    /\ UNCHANGED nonSessVars

\* EntryRemoveWizard.removeEntry with table 'Worksheet' and the last row.
RemoveEntry ==
    /\ ~stop
    /\ store.worksheets # << >>
    /\ store' = removeWorksheet(store)
    /\ UNCHANGED <<sessPc, sessErr, ipBound, served, sessLast, metaCount>>
    /\ UNCHANGED nonSessVars

ConsoleNext ==
    \/ SessNext
    \/ ConsoleReset
    \/ RemoveEntry

----------------------------------------------------------------------------
(***************************************************************************)
(* Specifications, one per component                                       *)
(***************************************************************************)

InitFraming == FramingInit /\ ExecIdle /\ CodecIdle /\ DiscIdle /\ SessIdle /\ SrvIdle /\ AuxIdle
SpecFraming == InitFraming /\ [][FramingNext]_vars

InitExecutor == ExecFresh /\ FramingInit /\ CodecIdle /\ DiscIdle /\ SessIdle /\ SrvIdle /\ AuxIdle
SpecExecutor == InitExecutor /\ [][ExecNext]_vars

InitCodec == CodecInit /\ FramingInit /\ ExecIdle /\ DiscIdle /\ SessIdle /\ SrvIdle /\ AuxIdle
SpecCodec == InitCodec /\ [][CodecNext]_vars

InitDecode == DecodeInit /\ FramingInit /\ ExecIdle /\ DiscIdle /\ SessIdle /\ SrvIdle /\ AuxIdle
SpecDecode == InitDecode /\ [][DecodeNext]_vars

InitVersion == VerInit /\ RaceIdle /\ SideIdle /\ FramingInit /\ ExecIdle /\ CodecIdle /\ DiscIdle /\ SessIdle /\ SrvIdle
SpecVersion == InitVersion /\ [][VerNext]_vars

InitHandler == RaceInit /\ VerIdle /\ SideIdle /\ FramingInit /\ ExecIdle /\ CodecIdle /\ DiscIdle /\ SessIdle /\ SrvIdle
SpecHandler == InitHandler /\ [][RaceNext]_vars

InitDiscovery == DiscInit /\ FramingInit /\ ExecIdle /\ CodecIdle /\ SessIdle /\ SrvIdle /\ AuxIdle
SpecDiscovery == InitDiscovery /\ [][DiscNext]_vars

InitSession == SessInit /\ DiscIdle /\ FramingInit /\ ExecIdle /\ CodecIdle /\ SrvIdle /\ AuxIdle
SpecSession == InitSession /\ [][SessNext]_vars

\* The session thread takes its steps outside recvMessage; the client is free
\* to stay silent.
FairSession == SpecSession /\ WF_vars(SessLoopTest)

InitServer == SrvInit /\ DiscInit /\ SessIdle /\ FramingInit /\ ExecIdle /\ CodecIdle /\ AuxIdle
SpecServer == InitServer /\ [][SrvNext]_vars
FairServer == SpecServer /\ SrvFairness

InitUsage == UsageInit /\ ClientIdle /\ VerIdle /\ RaceIdle /\ FramingInit /\ ExecIdle /\ CodecIdle /\ DiscIdle /\ SessIdle /\ SrvIdle
SpecUsage == InitUsage /\ [][UsageNext]_vars

InitClient == ClientInit /\ UsageIdle /\ VerIdle /\ RaceIdle /\ DiscInit /\ FramingInit /\ ExecIdle /\ CodecIdle /\ SessIdle /\ SrvIdle
SpecClient == InitClient /\ [][ClientNext]_vars

InitConsole == SessInit /\ DiscIdle /\ FramingInit /\ ExecIdle /\ CodecIdle /\ SrvIdle /\ AuxIdle
SpecConsole == InitConsole /\ [][ConsoleNext]_vars

----------------------------------------------------------------------------
(***************************************************************************)
(* Properties of the framing layer                                         *)
(***************************************************************************)

RECURSIVE FramesOf(_)
FramesOf(msgs) ==
    IF msgs = <<>> THEN <<>> ELSE Frame(Head(msgs)) \o FramesOf(Tail(msgs))

\* C1: whatever the chunking, the i-th recvMessage call returns exactly the
\* bytes of the i-th payload written with sendMessage, of any length
\* including 0: a bytearray, never None and never other bytes.
C1_FramingExact ==
    \A i \in 1 .. Len(received) :
        i <= Len(sentLog) =>
            /\ received[i].ret = "bytes"
            /\ received[i].bytes = sentLog[i]
            /\ Len(received[i].bytes) = Len(sentLog[i])

\* A payload of length 0 and a payload of the longest length have both been
\* sent and returned, the second after the first.
C1_Witness ==
    /\ Len(received) >= 2
    /\ Len(sentLog) >= 2
    /\ received[1].ret = "bytes" /\ received[1].bytes = <<>>
    /\ received[2].ret = "bytes" /\ Len(received[2].bytes) = MaxLen
    /\ sentLog[1] = <<>>

\* The bytearrays returned so far.
RECURSIVE BytesReturned(_)
BytesReturned(rs) ==
    IF rs = <<>> THEN <<>>
    ELSE IF Head(rs).ret = "bytes"
         THEN <<Head(rs).bytes>> \o BytesReturned(Tail(rs))
         ELSE BytesReturned(Tail(rs))

\* The bytes the call in progress has taken from the stream.
InProgress ==
    IF rpc = "hdr" THEN data
    ELSE IF rpc = "body" THEN Pack(numBytes) \o data
    ELSE <<>>

\* C2: successive recvMessage calls return the payloads in the order sent,
\* one per call, and the reads of one call stop at the end of its frame: the
\* bytes taken by the call in progress followed by the bytes still in flight
\* are exactly the frames of the messages not yet returned.
C2_OrderAndBoundaries ==
    LET got == BytesReturned(received)
    IN /\ Len(got) <= Len(sentLog)
       /\ got = SubSeq(sentLog, 1, Len(got))
       /\ (\A i \in 1 .. Len(received) : received[i].ret = "bytes") =>
             InProgress \o stream
                 = FramesOf(SubSeq(sentLog, Len(got) + 1, Len(sentLog))) \o tail

\* Two messages are in flight together, and the first has been returned while
\* the frame of the second is still whole in the stream.
C2_Witness ==
    /\ Len(sentLog) = 2
    /\ Len(received) = 1
    /\ received[1].ret = "bytes"
    /\ rpc = "idle"
    /\ stream = Frame(sentLog[2])
    /\ sentLog[1] # sentLog[2]

\* C3 (as claimed): recvMessage returns the end-of-stream signal, None, only
\* when the call has read no byte of a new message.
C3_NoneOnlyBetweenMessages ==
    \A i \in 1 .. Len(received) :
        received[i].ret = "None" => received[i].consumed = 0

----------------------------------------------------------------------------
(***************************************************************************)
(* Properties of the dispatch engine                                       *)
(***************************************************************************)

\* The executor holds an envelope whose exact (kind, command) is registered.
Registered ==
    /\ message.t = "ProtocolData"
    /\ hasHandlers
    /\ <<message.map["type"], message.map["command"]>> \in DOMAIN handlers

\* The registration under the envelope's exact (kind, command).
Registration == handlers[<<message.map["type"], message.map["command"]>>]

\* C4: when executeHandlers finds a registration for the envelope's
\* (kind, command), the registered action is called with the view its scope
\* names: MESSAGE the body, COMMAND the command, RESPONSE the kind, WHOLE the
\* entire envelope.
C4_ScopeSelectsView ==
    [][ (executeHandlers /\ Registered) =>
            /\ Len(calls') = 1
            /\ calls'[1].action = Registration.action
            /\ (Registration.scope = "message" => calls'[1].arg = message.map["message"])
            /\ (Registration.scope = "command" => calls'[1].arg = message.map["command"])
            /\ (Registration.scope = "response" => calls'[1].arg = message.map["type"])
            /\ (Registration.scope = "whole" => calls'[1].arg = message)
      ]_vars

\* A handler registered with scope RESPONSE has just been given the kind of a
\* POST envelope, and nothing else.
C4_Witness ==
    /\ outcome.op = "executeHandlers"
    /\ outcome.result = "returned"
    /\ Registered
    /\ Registration.scope = "response"
    /\ calls = << Call(Registration.action, REQUEST_POST, "handler") >>

\* C5: executeHandlers invokes exactly one action, once: the one registered
\* under the envelope's exact (kind, command).  When that pair is not
\* registered no registered action is invoked, whatever is registered under
\* the same command with another kind or the same kind with another command;
\* and the default handler is not invoked when a registration matches.
C5_ExactlyTheRegisteredAction ==
    [][ (executeHandlers /\ message.t = "ProtocolData") =>
            IF Registered
            THEN /\ Len(calls') = 1
                 /\ calls'[1].action = Registration.action
                 /\ calls'[1].via = "handler"
            ELSE \A i \in 1 .. Len(calls') : calls'[i].via = "default"
      ]_vars

\* The envelope GET 'b' has just been dispatched to its handler while another
\* action is registered under the same command with the kind POST, and a
\* default handler is set.
C5_Witness ==
    /\ outcome.op = "executeHandlers"
    /\ Registered
    /\ message.map["type"] = REQUEST_GET
    /\ message.map["command"] = PyStr("b")
    /\ <<REQUEST_POST, PyStr("b")>> \in DOMAIN handlers
    /\ handlers[<<REQUEST_POST, PyStr("b")>>].action # Registration.action
    /\ defaultHandler = "dflt"
    /\ Len(calls) = 1
    /\ calls[1].action = Registration.action

\* The envelope's (kind, command) matches no registration: none was made, or
\* none under that pair.
Unmatched ==
    /\ message.t = "ProtocolData"
    /\ (~hasHandlers \/ <<message.map["type"], message.map["command"]>> \notin DOMAIN handlers)

\* C6 (as claimed): when the envelope matches no registration and no default
\* handler was ever set, executeHandlers fails with the ValueError that names
\* the (kind, command) pair, and calls no action.
C6_UnhandledRaisesValueError ==
    [][ (executeHandlers /\ Unmatched /\ defaultHandler = "<unset>") =>
            /\ outcome'.result = "ValueError"
            /\ outcome'.tuple = <<message.map["type"], message.map["command"]>>
            /\ calls' = <<>>
      ]_vars

\* C7 (as claimed): when the envelope matches no registration and a default
\* handler was set, executeHandlers calls the default handler once with the
\* whole envelope, calls no registered action and raises no error.
C7_DefaultGetsWholeEnvelope ==
    [][ (executeHandlers /\ Unmatched /\ defaultHandler = "dflt") =>
            /\ calls' = << Call("dflt", message, "default") >>
            /\ outcome'.result = "returned"
      ]_vars

\* C8: addMessageHandler is an upsert keyed by (kind, command): after the
\* call the key holds the (action, scope) just given, every other key holds
\* what it held, no other key appears, and a registration equal to the one
\* the key already holds leaves the mapping as it was.
C8_RegistrationIsUpsert ==
    [][ outcome'.op = "addMessageHandler" =>
            LET old == IF hasHandlers THEN handlers ELSE NoHandlers
                key == outcome'.tuple
                given == outcome'.entry
            IN /\ hasHandlers'
               /\ DOMAIN handlers' = DOMAIN old \cup {key}
               /\ handlers'[key] = given
               /\ \A other \in DOMAIN old : other # key => handlers'[other] = old[other]
               /\ (key \in DOMAIN old /\ old[key] = given) => handlers' = old
      ]_vars

\* A key that was registered has just been registered again with another
\* action, while another key is registered too.
C8_Witness ==
    /\ outcome.op = "addMessageHandler"
    /\ outcome.note = "replaced"
    /\ Cardinality(DOMAIN handlers) = 2

----------------------------------------------------------------------------
(***************************************************************************)
(* Properties of the envelope codec                                        *)
(***************************************************************************)

\* A body made of strings, numbers, nested mappings and lists.
RECURSIVE Plain(_)
Plain(v) ==
    IF v.t \in {"str", "int"} THEN TRUE
    ELSE IF v.t = "list" THEN \A i \in 1 .. Len(v.items) : Plain(v.items[i])
    ELSE IF v.t = "dict" THEN \A k \in DOMAIN v.map : Plain(v.map[k])
    ELSE FALSE

\* C9 (as claimed): for every envelope built with prepMessage/addAttribute
\* from a kind of the closed set, a command string or none and a body of
\* strings, numbers, nested mappings and lists, decoding the serialized text
\* yields an envelope with the same kind, command and body, also when a
\* command or a body string is text that parses as structured text.
C9_RoundTrip ==
    (decoded # Nothing /\ Plain(built.map["message"])) =>
        /\ decoded.t = "ProtocolData"
        /\ getType(decoded) = built.map["type"]
        /\ getCommand(decoded) = built.map["command"]
        /\ getMessage(decoded) = built.map["message"]

\* The raw binary values of orig stand, byte for byte, at the same places of dec.
RECURSIVE BytesKept(_, _)
BytesKept(orig, dec) ==
    IF orig.t = "bytes" THEN dec.t = "bytes" /\ dec.b = orig.b
    ELSE IF orig.t = "list" THEN
        /\ dec.t = "list"
        /\ Len(dec.items) = Len(orig.items)
        /\ \A i \in 1 .. Len(orig.items) : BytesKept(orig.items[i], dec.items[i])
    ELSE IF orig.t = "dict" THEN
        /\ dec.t = "dict"
        /\ DOMAIN orig.map \subseteq DOMAIN dec.map
        /\ \A k \in DOMAIN orig.map : BytesKept(orig.map[k], dec.map[k])
    ELSE TRUE

\* The raw binary values of orig stand as their base64 text at the same
\* places of the document doc.
RECURSIVE BytesAsBase64(_, _)
BytesAsBase64(orig, doc) ==
    IF orig.t = "bytes" THEN doc.t = "str" /\ doc.s = b64encode(orig.b)
    ELSE IF orig.t = "list" THEN
        /\ doc.t = "list"
        /\ Len(doc.items) = Len(orig.items)
        /\ \A i \in 1 .. Len(orig.items) : BytesAsBase64(orig.items[i], doc.items[i])
    ELSE IF orig.t = "dict" /\ doc.t = "dict" THEN
        \A k \in DOMAIN orig.map \cap DOMAIN doc.map : BytesAsBase64(orig.map[k], doc.map[k])
    ELSE TRUE

\* C10 (as claimed): a raw binary value placed in an envelope body is base64
\* text on the wire, and the envelope deserializeMessageAsProtocolData
\* returns carries the original raw bytes, not the base64 text.
C10_BinaryDecodedOnReceipt ==
    decoded # Nothing =>
        /\ decoded.t = "ProtocolData"
        /\ BytesAsBase64(built.map["message"], wire.map["message"])
        /\ BytesKept(built.map["message"], getMessage(decoded))

\* C11: a prepMessage call given no body starts an envelope whose body is an
\* empty mapping, whatever was built and serialized before on the handler.
C11_NoBodyMeansEmptyBody ==
    [][(prepMessage(plan.responseObj, plan.mainCommand, plan.mainMessage, plan.defaulted)
            /\ plan.defaulted)
        => hdata'.map["message"] = PyDict(EmptyMap)]_vars

----------------------------------------------------------------------------
(***************************************************************************)
(* Properties of the discovery exchange                                    *)
(***************************************************************************)

\* The datagram the listener received last decoded to an envelope.
LastIsEnvelope == udpLast.decoded.t = "ProtocolData"

\* ... whose kind is POST and whose command is the discovery identifier.
LastMatches ==
    /\ LastIsEnvelope
    /\ getType(udpLast.decoded) = REQUEST_POST
    /\ getCommand(udpLast.decoded) = PyStr(ClientIdentifier)

\* The listener sent exactly one datagram for it, to its sender, and that
\* datagram decodes to an envelope of the given kind and body.
RepliedOnce(kind, body) ==
    /\ Len(udpLast.replies) = 1
    /\ udpLast.replies[1].addr = udpLast.addr
    /\ LET e == Deserialize(udpLast.replies[1].data)
       IN /\ e.t = "ProtocolData"
          /\ getType(e) = kind
          /\ getMessage(e) = body

C13_NonMatchingProbeGetsError ==
    (LastIsEnvelope /\ ~LastMatches) => RepliedOnce(RESPONSE_ERROR, STATUS_INVALID_REQUEST)

\* C14: the listener loop ends only because the stop flag is set; no datagram
\* makes the listener thread exit.
C14_ListenerEndsOnlyOnStop ==
    udpPc \in {"closed", "crashed"} => (stop /\ udpErr = "")

\* The datagram searchServer received decodes to an envelope.
GotEnvelope ==
    /\ ssPc = "done"
    /\ ssGot.data # Nothing
    /\ Deserialize(ssGot.data).t = "ProtocolData"

\* C15: when the datagram searchServer receives decodes to an envelope of
\* kind OK, searchServer returns the address of the responder, with a logger
\* and without one.
C15_OkReplyReturnsResponder ==
    (GotEnvelope /\ getType(Deserialize(ssGot.data)) = RESPONSE_OK)
        => ssResult = ReturnedAddr(ssGot.addr)

\* C16: when no reply arrives before the timeout, searchServer returns
\* (None, None), with a logger and without one.
C16_TimeoutReturnsNotFound ==
    (ssPc = "done" /\ ssGot = TimedOut) => ssResult = NotFound

\* C17: when the reply has a kind other than OK, searchServer returns
\* (None, None) and never the responder's address.
C17_NonOkReplyIsNotFound ==
    (GotEnvelope /\ getType(Deserialize(ssGot.data)) # RESPONSE_OK)
        => ssResult = NotFound

C17_Witness ==
    /\ GotEnvelope
    /\ getType(Deserialize(ssGot.data)) = RESPONSE_ERROR
    /\ getMessage(Deserialize(ssGot.data)) = STATUS_INVALID_REQUEST
    /\ ssLogger
    /\ ssResult = NotFound

----------------------------------------------------------------------------
(***************************************************************************)
(* Properties of one session                                               *)
(***************************************************************************)

\* The last read gave a frame whose payload decoded to a request that has
\* a registered handler, and the client stayed connected for the reply.
RegisteredRequestServed ==
    /\ sessLast.got = "frame"
    /\ sessLast.request.t = "ProtocolData"
    /\ getMessageTuple(sessLast.request) \in DOMAIN SessionHandlers
    /\ ~sessLast.reset

\* C18: for every received request whose (kind, command) is registered, the
\* server sends exactly one reply frame before it reads the next request,
\* whatever the body is.
C18_OneReplyPerRequest ==
    RegisteredRequestServed => Len(sessLast.replies) = 1

\* C19: when recvMessage signals end-of-stream, clientHandler leaves its
\* loop, closes the connection and ends; no handler is dispatched for that
\* read.
C19_EofEndsSession ==
    sessLast.got = "None"
        => /\ sessPc = "closed"
           /\ sessErr = ""
           /\ sessLast.action = ""
           /\ sessLast.replies = <<>>

C19_Witness ==
    /\ sessLast.got = "None"
    /\ served > 1
    /\ ipBound
    /\ sessPc = "closed"

\* C20: when the peer resets the connection while clientHandler is reading,
\* at any point of the session, the connection is closed and the session
\* thread ends without an uncaught error.
C20_ResetEndsSession ==
    sessLast.got = "ConnectionResetError" => (sessPc = "closed" /\ sessErr = "")

\* C21: when the payload of a received frame cannot be decoded as an
\* envelope, the session closes the connection and reads no further frame.
C21_UndecodableFrameClosesConnection ==
    (sessLast.got = "frame" /\ IsRaised(sessLast.request)) => sessPc = "closed"

\* The last read gave a well-formed envelope that no handler is registered for.
UnregisteredRequest ==
    /\ sessLast.got = "frame"
    /\ sessLast.request.t = "ProtocolData"
    /\ getType(sessLast.request) \in Kinds
    /\ getMessageTuple(sessLast.request) \notin DOMAIN SessionHandlers

\* A frame the session sent decodes to an envelope of kind ERROR.
ErrorReplySent ==
    \E i \in 1 .. Len(sessLast.replies) :
        /\ Deserialize(sessLast.replies[i]).t = "ProtocolData"
        /\ getType(Deserialize(sessLast.replies[i])) = RESPONSE_ERROR

\* C22: for a well-formed envelope without a registered handler the client
\* gets an ERROR reply or the server closes the connection; the connection
\* is never left open with no reply.
C22_UnregisteredGetsErrorOrClose ==
    UnregisteredRequest => (ErrorReplySent \/ sessPc = "closed")

\* The pass made in this step served a POST uploadWorksheet whose body is b.
UploadPass(b) ==
    /\ served' = served + 1
    /\ sessLast'.got = "frame"
    /\ ~sessLast'.reset
    /\ sessLast'.request.t = "ProtocolData"
    /\ getMessageTuple(sessLast'.request) = <<REQUEST_POST, PyStr("uploadWorksheet")>>
    /\ getMessage(sessLast'.request) = b

\* The bodies of the upload requests of the model.
UploadBodies ==
    { getMessage(Deserialize(doc)) : doc \in
        { d \in SessionRequests :
            /\ Deserialize(d).t = "ProtocolData"
            /\ getCommand(Deserialize(d)) = PyStr("uploadWorksheet") } }

RequiredFields == {"fileData", "form", "subject", "name"}

\* A required field is missing from the body or is null.
LacksRequired(b) ==
    /\ b.t = "dict"
    /\ \E k \in RequiredFields : k \notin DOMAIN b.map \/ b.map[k] = PyNone

\* form or subject is an index outside the loaded list.
BadReference(b) ==
    /\ b.t = "dict"
    /\ ~LacksRequired(b)
    /\ \/ b.map["form"].t = "int"
          /\ b.map["form"].n \notin 0 .. Len(ProgRes.map["forms"].items) - 1
       \/ b.map["subject"].t = "int"
          /\ b.map["subject"].n \notin 0 .. Len(ProgRes.map["subjects"].items) - 1

\* The pass of this step sent exactly one ERROR envelope with the given
\* status, left the store and the cached count alone and went on to the
\* next read.
RefusedWith(status) ==
    /\ sessLast'.replies = << Reply(RESPONSE_ERROR, PyEnum("STATUS", status)) >>
    /\ store' = store
    /\ metaCount' = metaCount
    /\ sessPc' = "while"

\* C26: an upload in which a required field is missing or null is answered
\* with ERROR/EMPTY_PARAMETER, stores nothing, and the session goes on.
C26_MissingFieldIsEmptyParameter ==
    [][\A b \in UploadBodies :
        (UploadPass(b) /\ LacksRequired(b)) => RefusedWith("empty_parameter")]_vars

\* C27: an upload whose form or subject is outside the resource lists is
\* answered with ERROR/INVALID_PARAMETER, stores nothing, and the session
\* goes on.
C27_BadReferenceIsInvalidParameter ==
    [][\A b \in UploadBodies :
        (UploadPass(b) /\ BadReference(b)) => RefusedWith("invalid_parameter")]_vars

\* The pass made in this step served a POST registerUsage as the shipped
\* client sends it, for a worksheet the store holds.
ShippedUsagePass ==
    /\ served' = served + 1
    /\ sessLast'.got = "frame"
    /\ ~sessLast'.reset
    /\ sessLast'.request.t = "ProtocolData"
    /\ getMessageTuple(sessLast'.request) = <<REQUEST_POST, PyStr("registerUsage")>>
    /\ getMessage(sessLast'.request).t = "dict"
    /\ DOMAIN getMessage(sessLast'.request).map = {"worksheet", "class", "teacher"}
    /\ \E i \in 1 .. Len(store.worksheets) :
          PyStr(store.worksheets[i]) = getMessage(sessLast'.request).map["worksheet"]

\* C29: a registerUsage without section and substitute teacher is served
\* completely: the worksheet bytes are sent, the usage is recorded, and the
\* session goes on to the next read.
C29_UsageWithoutOptionalFields ==
    [][ShippedUsagePass =>
        /\ sessLast'.replies = << Reply(RESPONSE_OK, FileData) >>
        /\ store'.records = store.records + 1
        /\ sessPc' = "while"]_vars

\* Session i ends with an error in this step.
EndsWithError(i) ==
    /\ sess[i].pc = "recvMessage"
    /\ EndedWithError(sess'[i])

udpVars == <<udpInbox, udpCount, udpPc, udpErr, udpLast>>

\* C23: when one session ends with an error (a reset, a decode failure, an
\* unregistered command, an exception inside a handler), the accept thread,
\* the discovery listener and every other session are left as they were, and
\* the accept thread has not been ended by an exception.
C23_SessionErrorIsLocal ==
    [][\A i \in 1 .. MaxSessions :
        EndsWithError(i) =>
            /\ accPc' = accPc
            /\ accPc' \in {"while", "accept", "closed"}
            /\ udpVars' = udpVars
            /\ stop' = stop
            /\ \A j \in 1 .. MaxSessions \ {i} : sess'[j] = sess[j]]_vars

\* After one session crashed, another client was accepted and got a reply.
C23_Witness ==
    \E i, j \in 1 .. MaxSessions :
        /\ sess[i].pc = "crashed"
        /\ sess[j].after
        /\ sess[j].last.replies # <<>>

\* Session j reads GET totalWorksheets in this step and answers it.
TotalsPass(j) ==
    /\ sess[j].pc = "recvMessage"
    /\ sess'[j].served = sess[j].served + 1
    /\ sess'[j].last.action = "getTotalWorksheets"
    /\ sess'[j].last.replies # <<>>

\* Session i has sent OK/SUCCESS for the upload it read last.
UploadAnswered(i) ==
    /\ sess[i].last.action = "postUploadWorksheet"
    /\ sess[i].last.replies = << Reply(RESPONSE_OK, STATUS_SUCCESS) >>

\* C28: a GET totalWorksheets read after an upload was answered with
\* OK/SUCCESS, on any connection and with that upload the only change of the
\* store, is answered with the count before the upload plus one.
C28_CountAfterUpload ==
    [][\A j \in 1 .. MaxSessions :
        ( /\ TotalsPass(j)
          /\ \E i \in 1 .. MaxSessions : UploadAnswered(i)
          /\ Len(store.worksheets) = Len(InitialStore.worksheets) + 1 )
        => sess'[j].last.replies =
              << Reply(RESPONSE_OK, PyInt(Len(InitialStore.worksheets) + 1)) >>]_vars

\* C24: once the stop flag is set, a session that waits in recvMessage for a
\* client that sends nothing eventually leaves its loop.
C24_StopEndsWaitingSession ==
    (stop /\ sessPc = "recvMessage") ~> (sessPc \in {"closed", "crashed"})

\* C25: once the stop flag is set, the discovery listener and the accept
\* thread each eventually leave their loop and close their socket.
C25_StopEndsListeners ==
    stop ~> (udpPc = "closed" /\ accPc = "closed")

\* The accept thread alone: once the stop flag is set it leaves its loop and
\* closes the listening socket.
AcceptLoopEnds == stop ~> (accPc = "closed")

\* The discovery listener ends too when no datagram has made it raise.
ListenerEndsUnlessCrashed == stop ~> (udpPc \in {"closed", "crashed"})

\* C30: every envelope deserializeMessageAsProtocolData returns has a kind,
\* and the kind is one of GET, POST, PUT, DELETE, OK, ERROR.
C30_KindInClosedSet ==
    (decoded # Nothing /\ ~IsRaised(decoded)) => getType(decoded) \in Kinds

\* The decoder raised json.JSONDecodeError or ValueError; the first is a
\* subclass of the second, which is what the callers catch.
DecodeError(v) == IsRaised(v) /\ v.s \in {"JSONDecodeError", "ValueError"}

\* C31: text that is not well-formed, and text in which a tag wrapper
\* carries a value that is no member of its class, make
\* deserializeMessageAsProtocolData fail with a decode error; no envelope is
\* returned.
C31_BadTextFailsToDecode ==
    (decoded # Nothing /\ wire \in BadTagDocs \cup {Malformed}) => DecodeError(decoded)

\* A text with a bad tag nested in a list of the body was given to the
\* decoder, and it raised.
C31_Witness ==
    /\ wire = WireDoc(PyStr("c"), PyDict("a" :> PyList(<< PyDict("__STATUS__" :> PyNone) >>)))
    /\ DecodeError(decoded)

\* What re-parsing every string gives: a string that is JSON text becomes
\* the value it denotes, any other string stays, and mappings and lists are
\* gone through element by element.
RECURSIVE Reparsed(_)
Reparsed(v) ==
    IF v.t = "str" THEN (IF IsRaised(LoadsText(v.s)) THEN v ELSE LoadsText(v.s))
    ELSE IF v.t = "list" THEN PyList([i \in 1 .. Len(v.items) |-> Reparsed(v.items[i])])
    ELSE IF v.t = "dict" THEN PyDict([k \in DOMAIN v.map |-> Reparsed(v.map[k])])
    ELSE v

\* C33: decoding re-parses every string value, as a value of a mapping at
\* any depth or as an element of a list; a string that fails to re-parse is
\* kept and decoding does not fail because of it.
C33_EveryStringReparsed ==
    \A doc \in StringDocs :
        (wire = doc /\ decoded # Nothing) =>
            decoded = ProtocolData(REQUEST_GET, Reparsed(doc.map["command"]),
                                   Reparsed(doc.map["message"]))

\* C34: a tag member placed as the kind or anywhere in the body decodes to
\* the same member, and a body string whose text is the value of a tag
\* decodes to that string.
C34_TagsAndStringsKeptApart ==
    \A env \in TagEnvelopes :
        (wire = Serialize(env) /\ decoded # Nothing) =>
            decoded = ProtocolData(env.map["type"], env.map["command"], env.map["message"])

\* An envelope with tags nested in a list and a mapping of its body was
\* serialized and decoded.
C34_Witness ==
    /\ wire = Serialize(PyDict("type" :> RESPONSE_OK @@ "command" :> PyStr("c")
                @@ "message" :> PyDict("l" :> PyList(<< REQUEST_POST,
                                                        PyDict("k" :> RESPONSE_ERROR) >>))))
    /\ decoded # Nothing
    /\ ~IsRaised(decoded)

\* The server version is newer: major, then minor, then patch.
Newer(c, s) ==
    \/ s[1] > c[1]
    \/ s[1] = c[1] /\ s[2] > c[2]
    \/ s[1] = c[1] /\ s[2] = c[2] /\ s[3] > c[3]

OwnReply(t) ==
    Serialize(PyDict("type" :> thPlan[t].responseObj @@ "command" :> thPlan[t].mainCommand
                     @@ "message" :> thPlan[t].mainMessage))

\* C36: each thread that builds its reply through the shared ProtocolHandler
\* sends exactly the envelope its own handler prepared.
C36_EachThreadSendsItsOwnReply ==
    \A t \in Threads : thSent[t] # << >> => thSent[t][1] = OwnReply(t)

\* A class record names the usage record that the same request inserted.
OwnRecord(c) ==
    /\ c.record_id \in 1 .. Len(recordsTbl)
    /\ recordsTbl[c.record_id] = c.by

\* C37: every class record that postRegisterUsage wrote references the usage
\* record that the same request created, also when two sessions register a
\* usage at the same time.
C37_ClassRecordReferencesOwnUsage ==
    \A i \in 1 .. Len(classTbl) : OwnRecord(classTbl[i])

\* C38: between requests the cached count database_metadata['count'] is the
\* number of worksheets in the store, after uploads, console resets and
\* removals through the GUI.
C38_CachedCountIsStoreCount ==
    metaCount = Len(store.worksheets)

\* C39: the client goes on to connectToServer only with an address that
\* searchServer found; on (None, None) it exits.
C39_ConnectsOnlyAfterDiscovery ==
    clPc = "connectToServer" => clAddr.kind = "addr"


\* The upload requests of the model that pass every check of handelUpload
\* before the write: the six fields are there, the required ones are not
\* null, form and subject name entries of the loaded lists.
WritableUploads ==
    { doc \in SessionRequests :
        /\ Deserialize(doc).t = "ProtocolData"
        /\ getMessageTuple(Deserialize(doc)) = <<REQUEST_POST, PyStr("uploadWorksheet")>>
        /\ getMessage(Deserialize(doc)) \in UploadBodies
        /\ DOMAIN UploadBody.map \subseteq DOMAIN getMessage(Deserialize(doc)).map
        /\ ~LacksRequired(getMessage(Deserialize(doc)))
        /\ ~BadReference(getMessage(Deserialize(doc))) }

\* The session serves the upload doc on a connection that stays up, and the
\* write of the file fails.
FailedWrite(doc) ==
    /\ sessPc = "recvMessage"
    /\ served < MaxRequests
    /\ SessPass("frame", doc, FALSE, TRUE)

UploadFailedReply == Reply(RESPONSE_ERROR, PyEnum("STATUS", "upload_failed"))

C40_FrameNeverEndsSessionAsDisconnect ==
    [][(sessPc = "recvMessage" /\ served' = served + 1 /\ sessLast'.got \in {"frame", "empty"})
        => ~(sessPc' = "closed" /\ sessLast'.raised = "" /\ sessLast'.action = "")]_vars


====
